---- MODULE Spec2Model ----
(***************************************************************************)
(* A model of the code-navigation indexer: the index directory and its     *)
(* open-or-recreate logic (indexes.rs), the single-writer indexing session *)
(* (Indexes::index), the tree walk with its hash-based add/update/skip     *)
(* decisions (file.rs, traverse_and_index_files) and the nested .gitignore *)
(* resolver (GitignoreManager).                                            *)
(*                                                                         *)
(* The text store (tantivy) is modelled by what the code relies on:        *)
(*   - documents added or deleted through a writer are pending until       *)
(*     commit; dropping the writer discards them;                          *)
(*   - delete_term removes every document with that term that was          *)
(*     committed earlier or added earlier through the same writer;         *)
(*   - a directory admits one writer at a time (the writer lock): a second *)
(*     writer_with_num_threads fails while the first writer lives.         *)
(***************************************************************************)
EXTENDS Integers, Sequences, FiniteSets, Bags, TLC

\* ------------------------------------------------------------- bounds

\* Disk edits (write, remove, change of a .gitignore) over one behaviour.
MaxEdits == 2

\* Calls of Indexes::index over one behaviour.
MaxSessions == 3

\* ------------------------------------------------------------ universe

Tasks == {"t1", "t2"}
Instances == {"i1", "i2"}
NoTask == "none"

\* Paths are sequences of components below the indexed root.
Root == <<>>
Sub == <<"sub">>
APy == <<"a.py">>
ALog == <<"a.log">>
KeepLog == <<"sub", "keep.log">>
BPy == <<"sub", "b.py">>
LinkTxt == <<"l.txt">>
LinkPy == <<"l.py">>
GiName == ".gitignore"

\* File contents as read by std::fs::read.
V1 == "x=1"
V2 == "x=2"
LogText == "log line"
BinBytes == "<ff fe>"
NoFile == "absent"

\* The files whose bytes the disk holds; the two links are symbolic links to a.py.
RealFiles == {APy, ALog, KeepLog, BPy}
EditableFiles == {APy}
FileContents == {V1, V2, BinBytes}

\* A .gitignore pattern: `*.ext`, `name`, or either one negated with `!`.
StarLog == [neg |-> FALSE, kind |-> "ext", text |-> "log"]
StarPy == [neg |-> FALSE, kind |-> "ext", text |-> "py"]
NotKeepLog == [neg |-> TRUE, kind |-> "name", text |-> "keep.log"]
SubDirPat == [neg |-> FALSE, kind |-> "name", text |-> "sub"]

NoGitignore == [present |-> FALSE, rules |-> <<>>]
GiFile(rules) == [present |-> TRUE, rules |-> rules]
GiDirs == {Root, Sub}
RootRuleFiles == {NoGitignore, GiFile(<<StarLog>>), GiFile(<<StarPy>>), GiFile(<<SubDirPat>>)}
SubRuleFiles == {NoGitignore, GiFile(<<NotKeepLog>>), GiFile(<<StarLog, NotKeepLog>>)}
RuleFilesOf(dir) == IF dir = Root THEN RootRuleFiles ELSE SubRuleFiles

\* Every path is_ignored is asked about, on disk or not.
AllPaths ==
    {APy, ALog, KeepLog, BPy, LinkTxt, LinkPy, Sub,
     <<GiName>>, <<"sub", GiName>>, <<"sub", "x.log">>, <<"sub", "x.py">>}

\* ------------------------------------------------------------ variables

VARIABLES
    fileBytes,    \* disk: RealFiles -> bytes or NoFile
    linkExt,      \* disk: "none", or the extension of the symbolic link l.<ext> -> a.py
    giRules,      \* disk: GiDirs -> the .gitignore of that directory
    edits,        \* disk edits so far
    dirSchema,    \* index directory: "none" | "current" | "mismatch"
    committed,    \* index directory: the bag of committed (live) documents
    writerLock,   \* index directory: the task whose IndexWriter holds the writer lock
    instState,    \* Indexes value: "none" | "ready" | "failed"
    createLog,    \* Indexes value: what its Indexer::create did
    mutex,        \* Indexes value: the task holding write_mutex
    pc,           \* task: position in Indexes::index
    inst,         \* task: the Indexes value it called index on
    result,       \* task: "none" | "ok" | the error index() returned
    existing,     \* task: existing_docs, path -> hash
    gitignores,   \* task: GitignoreManager.gitignores, deepest first
    stack,        \* task: the recursion of traverse_and_index_files, innermost first
    pendDel,      \* task: paths deleted through the writer, not yet committed
    pendAdd,      \* task: documents added through the writer, not yet committed
    preSession,   \* task: the committed documents when the session obtained its writer
    sessAdds,     \* task: add_document calls of the session, per path
    sessDels,     \* task: delete_term calls of the session, per path
    writerEnd,    \* task: how the session's writer ended: "none" | "commit" | "rollback" | "drop"
    startedClean, \* task: the session started with no change since the last successful one
    cleanSince,   \* no disk edit and no index rebuild since the last successful session
    sessions,     \* calls of Indexes::index so far
    readerDocs,   \* Searcher: the live documents its reader sees, in document order
    call,         \* Searcher: the last query evaluated
    reply,        \* Searcher: what that query returned
    entry         \* public entry point: "none", or the step the running call is at

diskVars == <<fileBytes, linkExt, giRules, edits>>
indexVars == <<dirSchema, committed, writerLock>>
instVars == <<instState, createLog, mutex>>
walkVars == <<existing, gitignores, stack, pendDel, pendAdd, sessAdds, sessDels>>
taskVars == <<pc, inst, result, preSession, writerEnd, startedClean>>
searchVars == <<readerDocs, call, reply, entry>>
vars == <<diskVars, indexVars, instVars, walkVars, taskVars, cleanSince, sessions, searchVars>>

\* ------------------------------------------------------------ paths

Last(p) == p[Len(p)]

\* Path::starts_with: a component-wise prefix.
StartsWith(p, dir) == Len(dir) <= Len(p) /\ SubSeq(p, 1, Len(dir)) = dir

\* Path::strip_prefix, for a path that starts with dir.
StripPrefix(p, dir) == SubSeq(p, Len(dir) + 1, Len(p))

\* Path::extension of a file name ("" where the code's unwrap_or("") applies).
ExtOfName(name) ==
    CASE name \in {"a.py", "b.py", "l.py", "x.py"} -> "py"
      [] name \in {"a.log", "keep.log", "x.log"} -> "log"
      [] name = "l.txt" -> "txt"
      [] OTHER -> ""

\* TSLanguage::from_extension: the language of an extension, "none" for no language.
FromExtension(ext) == IF ext = "py" THEN "python" ELSE "none"

\* File::detect_language.
detect_language(path) ==
    LET lang == FromExtension(ExtOfName(Last(path)))
    IN  IF lang = "none" THEN "plaintext" ELSE lang

\* String::from_utf8 on the bytes read: the text itself, or an error.
FromUtf8(bytes) ==
    IF bytes = BinBytes THEN [ok |-> FALSE, str |-> ""] ELSE [ok |-> TRUE, str |-> bytes]

\* Sha256 of a text, rendered as lowercase hex: distinct texts give distinct hashes.
Sha256Hex(str) == <<"sha256", str>>

\* ------------------------------------------------------------ disk

GiPath(dir) == dir \o <<GiName>>
GiText == "rules"
LinkPaths == {LinkTxt, LinkPy}
LinkPathOf(ext) == IF ext = "txt" THEN LinkTxt ELSE LinkPy

\* Path::canonicalize: symbolic links resolved.
Canonicalize(p) == IF p \in LinkPaths THEN APy ELSE p

\* The directory entries that exist (a dangling link is still an entry).
EntryPaths ==
    {f \in RealFiles : fileBytes[f] # NoFile}
        \cup {Sub}
        \cup (IF linkExt = "none" THEN {} ELSE {LinkPathOf(linkExt)})
        \cup {GiPath(d) : d \in {e \in GiDirs : giRules[e].present}}

\* fs::read_dir(dir): the names in the directory.
DirEntries(dir) ==
    {Last(p) : p \in {q \in EntryPaths : Len(q) = Len(dir) + 1 /\ StartsWith(q, dir)}}

\* std::fs::read, following symbolic links; NoFile where there is no regular file.
ReadBytes(p) ==
    CASE p \in RealFiles -> fileBytes[p]
      [] p \in LinkPaths -> IF p \in EntryPaths THEN fileBytes[APy] ELSE NoFile
      [] p \in {GiPath(d) : d \in GiDirs} ->
            IF p \in EntryPaths THEN GiText ELSE NoFile
      [] OTHER -> NoFile

\* Path::is_dir and Path::is_file, both following symbolic links.
IsDirPath(p) == p = Sub
IsFilePath(p) == ReadBytes(p) # NoFile

\* ------------------------------------------------------------ ignore rules

\* A pattern with no slash matches the last component at any depth.
GlobMatches(pat, rel) ==
    IF pat.kind = "ext" THEN ExtOfName(Last(rel)) = pat.text ELSE Last(rel) = pat.text

SetMax(S) == CHOOSE x \in S : \A y \in S : y <= x

\* Gitignore::matched(relative_path, false): the last pattern of the file that
\* matches decides; the directory of the file itself matches nothing.
Matched(rules, rel) ==
    IF rel = <<>> THEN "None"
    ELSE LET hits == {k \in 1..Len(rules) : GlobMatches(rules[k], rel)}
         IN  IF hits = {} THEN "None"
             ELSE IF rules[SetMax(hits)].neg THEN "Whitelist" ELSE "Ignore"

\* A load_gitignores that leaves the list in push order.
SortByDepthDescOmitted(pushed) == pushed

\* The stable sort of load_gitignores: descending by the component count of the
\* directory, equal depths keeping their push order.
RECURSIVE InsertByDepth(_, _)
InsertByDepth(sorted, e) ==
    IF sorted = <<>> THEN <<e>>
    ELSE IF Len(Head(sorted).dir) >= Len(e.dir)
         THEN <<Head(sorted)>> \o InsertByDepth(Tail(sorted), e)
         ELSE <<e>> \o sorted

RECURSIVE SortByDepthDesc(_)
SortByDepthDesc(pushed) ==
    IF pushed = <<>> THEN <<>>
    ELSE InsertByDepth(SortByDepthDesc(SubSeq(pushed, 1, Len(pushed) - 1)),
                       pushed[Len(pushed)])

\* The orders in which the walk of load_gitignores may meet the .gitignore files.
PushOrders ==
    LET dirs == {d \in GiDirs : giRules[d].present}
    IN  {s \in UNION {[1..n -> dirs] : n \in {Cardinality(dirs)}} :
            \A i, j \in DOMAIN s : i # j => s[i] # s[j]}

\* GitignoreManager::load_gitignores: push in walk order, then sort.
LoadGitignores(order) ==
    SortByDepthDesc([k \in DOMAIN order |-> [dir |-> order[k], rules |-> giRules[order[k]].rules]])

\* An is_ignored in which a whitelist match does not stop the scan.
is_ignored_skipping_whitelist(gis, path) ==
    \E k \in DOMAIN gis :
        /\ StartsWith(path, gis[k].dir)
        /\ Matched(gis[k].rules, StripPrefix(path, gis[k].dir)) = "Ignore"

\* GitignoreManager::is_ignored: the first listed .gitignore whose directory is a
\* prefix of the path and whose match is not None decides.
RECURSIVE IsIgnoredFrom(_, _, _)
IsIgnoredFrom(gis, k, path) ==
    IF k > Len(gis) THEN FALSE
    ELSE IF StartsWith(path, gis[k].dir)
         THEN LET m == Matched(gis[k].rules, StripPrefix(path, gis[k].dir))
              IN  CASE m = "Ignore" -> TRUE
                    [] m = "Whitelist" -> FALSE
                    [] OTHER -> IsIgnoredFrom(gis, k + 1, path)
         ELSE IsIgnoredFrom(gis, k + 1, path)

is_ignored(gis, path) == IsIgnoredFrom(gis, 1, path)

\* ------------------------------------------------------------ text store

\* The documents of a bag that are not at path p.
WithoutPath(bag, p) == [d \in {e \in DOMAIN bag : e.path # p} |-> bag[d]]

\* The number of live documents of a bag at path p.
RECURSIVE BagSum(_, _)
BagSum(bag, S) ==
    IF S = {} THEN 0
    ELSE LET d == CHOOSE e \in S : TRUE IN bag[d] + BagSum(bag, S \ {d})

DocsAt(bag, p) == BagSum(bag, {d \in DOMAIN bag : d.path = p})
PathsOf(bag) == {d.path : d \in DOMAIN bag}

\* load_existing_docs: path -> hash over the live documents. Every live document
\* of one path carries the same hash (SamePathSameHash), so the map does not
\* depend on the order of the segments.
load_existing_docs(store) ==
    [p \in PathsOf(store) |-> (CHOOSE d \in DOMAIN store : d.path = p).hash]

\* IndexWriter::commit: pending deletes apply to what was committed before, and
\* the pending adds that survived later deletes are added.
RECURSIVE DeleteAll(_, _)
DeleteAll(bag, paths) ==
    IF paths = {} THEN bag
    ELSE LET p == CHOOSE q \in paths : TRUE
         IN  DeleteAll(WithoutPath(bag, p), paths \ {p})

\* A commit that also drops the documents whose file is gone from disk.
CommitResultPruningMissing(store, dels, adds) ==
    LET kept == [d \in {e \in DOMAIN store : ReadBytes(e.path) # NoFile} |-> store[d]]
    IN  DeleteAll(kept, dels) (+) adds

CommitResult(store, dels, adds) == DeleteAll(store, dels) (+) adds

\* A document of an index written under another schema.
OldDoc == [path |-> <<"old">>, content |-> "old", hash |-> Sha256Hex("old"), lang |-> "old"]


\* ------------------------------------------------------------ initial state

\* The paths a document can be stored under.
CanonPaths == RealFiles \cup {GiPath(d) : d \in GiDirs}
ZeroCounts == [p \in CanonPaths |-> 0]

\* Indexer::create has not run.
NoCreateLog == [first |-> "none", removed |-> FALSE, inits |-> 0, removes |-> 0]

\* The state every task, Indexes value and session counter starts in.
\* No Searcher has been opened: nothing is queried.
NoCall == [op |-> "none"]
NoReply == [kind |-> "none"]
SearcherIdle ==
    /\ readerDocs = <<>>
    /\ call = NoCall
    /\ reply = NoReply
    /\ entry = "none"

InitRest ==
    /\ edits = 0
    /\ committed = IF dirSchema = "mismatch" THEN SetToBag({OldDoc}) ELSE EmptyBag
    /\ writerLock = NoTask
    /\ instState = [i \in Instances |-> "none"]
    /\ createLog = [i \in Instances |-> NoCreateLog]
    /\ mutex = [i \in Instances |-> NoTask]
    /\ pc = [t \in Tasks |-> "idle"]
    /\ inst = [t \in Tasks |-> "i1"]
    /\ result = [t \in Tasks |-> "none"]
    /\ existing = [t \in Tasks |-> <<>>]
    /\ gitignores = [t \in Tasks |-> <<>>]
    /\ stack = [t \in Tasks |-> <<>>]
    /\ pendDel = [t \in Tasks |-> {}]
    /\ pendAdd = [t \in Tasks |-> EmptyBag]
    /\ preSession = [t \in Tasks |-> EmptyBag]
    /\ sessAdds = [t \in Tasks |-> ZeroCounts]
    /\ sessDels = [t \in Tasks |-> ZeroCounts]
    /\ writerEnd = [t \in Tasks |-> "none"]
    /\ startedClean = [t \in Tasks |-> FALSE]
    /\ cleanSince = FALSE
    /\ sessions = 0

\* A source tree with two Python files, and the tree of the ignore-precedence
\* scenario: *.log ignored at the root, keep.log whitelisted in sub.
PlainTree ==
    /\ fileBytes = [f \in RealFiles |-> IF f \in {APy, BPy} THEN V1 ELSE NoFile]
    /\ giRules = [d \in GiDirs |-> NoGitignore]

LogTree ==
    /\ fileBytes = [f \in RealFiles |-> IF f = BPy THEN NoFile
                                        ELSE IF f = APy THEN V1 ELSE LogText]
    /\ giRules = [d \in GiDirs |-> IF d = Root THEN GiFile(<<StarLog>>)
                                   ELSE GiFile(<<NotKeepLog>>)]

\* Sequential indexing of a tree that changes between sessions: a new index
\* directory, one Indexes value, one caller.
Init ==
    /\ PlainTree \/ LogTree
    /\ linkExt \in {"none", "txt", "py"}
    /\ dirSchema = "none"
    /\ InitRest
    /\ SearcherIdle

\* ------------------------------------------------------------ disk edits

\* The tree changes only between indexing sessions.
Quiet == \A t \in Tasks : pc[t] = "idle"

WriteFile(f, bytes) ==
    /\ Quiet /\ edits < MaxEdits
    /\ fileBytes[f] # bytes
    /\ fileBytes' = [fileBytes EXCEPT ![f] = bytes]
    /\ edits' = edits + 1
    /\ cleanSince' = FALSE
    /\ UNCHANGED <<linkExt, giRules, indexVars, instVars, walkVars, taskVars, sessions>>

RemoveFile(f) ==
    /\ Quiet /\ edits < MaxEdits
    /\ fileBytes[f] # NoFile
    /\ fileBytes' = [fileBytes EXCEPT ![f] = NoFile]
    /\ edits' = edits + 1
    /\ cleanSince' = FALSE
    /\ UNCHANGED <<linkExt, giRules, indexVars, instVars, walkVars, taskVars, sessions>>

SetGitignore(dir, file) ==
    /\ Quiet /\ edits < MaxEdits
    /\ giRules[dir] # file
    /\ giRules' = [giRules EXCEPT ![dir] = file]
    /\ edits' = edits + 1
    /\ cleanSince' = FALSE
    /\ UNCHANGED <<fileBytes, linkExt, indexVars, instVars, walkVars, taskVars, sessions>>

\* ------------------------------------------------------------ Indexer::create

\* An Indexer::create that removes the directory on any error of init_index.
CreateRunRemovingOnAnyError(schema, store, first, rmOk, retry, rdOk) ==
    CASE first = "ok" ->
            [state |-> IF rdOk THEN "ready" ELSE "failed",
             schema |-> "current", store |-> store,
             log |-> [first |-> first, removed |-> FALSE, inits |-> 1, removes |-> 0]]
      [] first # "ok" /\ ~rmOk ->
            [state |-> "failed", schema |-> schema, store |-> store,
             log |-> [first |-> first, removed |-> FALSE, inits |-> 1, removes |-> 1]]
      [] first # "ok" /\ rmOk /\ retry = "ok" ->
            [state |-> IF rdOk THEN "ready" ELSE "failed",
             schema |-> "current", store |-> EmptyBag,
             log |-> [first |-> first, removed |-> TRUE, inits |-> 2, removes |-> 1]]
      [] OTHER ->
            [state |-> "failed", schema |-> "none", store |-> EmptyBag,
             log |-> [first |-> first, removed |-> TRUE, inits |-> 2, removes |-> 1]]

\* An Indexer::create that goes through delete-and-retry a second time when the
\* retry fails.
CreateRunRetryingAgain(schema, store, first, rmOk, retry, rdOk) ==
    CASE first = "ok" ->
            [state |-> IF rdOk THEN "ready" ELSE "failed",
             schema |-> "current", store |-> store,
             log |-> [first |-> first, removed |-> FALSE, inits |-> 1, removes |-> 0]]
      [] first = "mismatch" /\ ~rmOk ->
            [state |-> "failed", schema |-> schema, store |-> store,
             log |-> [first |-> first, removed |-> FALSE, inits |-> 1, removes |-> 1]]
      [] first = "mismatch" /\ rmOk /\ retry = "ok" ->
            [state |-> IF rdOk THEN "ready" ELSE "failed",
             schema |-> "current", store |-> EmptyBag,
             log |-> [first |-> first, removed |-> TRUE, inits |-> 2, removes |-> 1]]
      [] first = "mismatch" /\ rmOk /\ retry # "ok" ->
            [state |-> IF rdOk THEN "ready" ELSE "failed",
             schema |-> "current", store |-> EmptyBag,
             log |-> [first |-> first, removed |-> TRUE, inits |-> 3, removes |-> 2]]
      [] OTHER ->
            [state |-> "failed", schema |-> schema, store |-> store,
             log |-> [first |-> first, removed |-> FALSE, inits |-> 1, removes |-> 0]]

\* What init_index can return for the directory as it is: the schema error only
\* for an index of another schema, success only without one.
FirstOutcomes(schema) ==
    IF schema = "mismatch" THEN {"mismatch", "err"} ELSE {"ok", "err"}

\* Indexer::create: open or create; on the schema-mismatch error remove the
\* directory and open once more. first and retry are the outcomes of the two
\* init_index calls, rmOk that of remove_dir_all, rdOk that of index.reader().
CreateRun(schema, store, first, rmOk, retry, rdOk) ==
    CASE first = "ok" ->
            [state |-> IF rdOk THEN "ready" ELSE "failed",
             schema |-> "current", store |-> store,
             log |-> [first |-> first, removed |-> FALSE, inits |-> 1, removes |-> 0]]
      [] first = "mismatch" /\ ~rmOk ->
            [state |-> "failed", schema |-> schema, store |-> store,
             log |-> [first |-> first, removed |-> FALSE, inits |-> 1, removes |-> 1]]
      [] first = "mismatch" /\ rmOk /\ retry = "ok" ->
            [state |-> IF rdOk THEN "ready" ELSE "failed",
             schema |-> "current", store |-> EmptyBag,
             log |-> [first |-> first, removed |-> TRUE, inits |-> 2, removes |-> 1]]
      [] first = "mismatch" /\ rmOk /\ retry # "ok" ->
            [state |-> "failed", schema |-> "none", store |-> EmptyBag,
             log |-> [first |-> first, removed |-> TRUE, inits |-> 2, removes |-> 1]]
      [] OTHER ->
            [state |-> "failed", schema |-> schema, store |-> store,
             log |-> [first |-> first, removed |-> FALSE, inits |-> 1, removes |-> 0]]

\* Indexes::new on the index directory.
Create(i) ==
    /\ instState[i] = "none"
    /\ \E first \in FirstOutcomes(dirSchema), rmOk \in BOOLEAN,
          retry \in {"ok", "err"}, rdOk \in BOOLEAN :
          LET r == CreateRun(dirSchema, committed, first, rmOk, retry, rdOk)
          IN  /\ instState' = [instState EXCEPT ![i] = r.state]
              /\ createLog' = [createLog EXCEPT ![i] = r.log]
              /\ dirSchema' = r.schema
              /\ committed' = r.store
              /\ cleanSince' = (cleanSince /\ r.store = committed)
    /\ UNCHANGED <<diskVars, writerLock, mutex, walkVars, taskVars, sessions>>

\* ------------------------------------------------------------ Indexes::index

CallIndex(t, i) ==
    /\ pc[t] = "idle"
    /\ instState[i] = "ready"
    /\ sessions < MaxSessions
    /\ pc' = [pc EXCEPT ![t] = "lock"]
    /\ inst' = [inst EXCEPT ![t] = i]
    /\ sessions' = sessions + 1
    /\ UNCHANGED <<diskVars, indexVars, instVars, walkVars, result, preSession,
                   writerEnd, startedClean, cleanSince>>

\* self.write_mutex.lock().await
AcquireMutex(t) ==
    /\ pc[t] = "lock"
    /\ mutex[inst[t]] = NoTask
    /\ mutex' = [mutex EXCEPT ![inst[t]] = t]
    /\ pc' = [pc EXCEPT ![t] = "write_handle"]
    /\ UNCHANGED <<diskVars, indexVars, instState, createLog, walkVars,
                   inst, result, preSession, writerEnd, startedClean, cleanSince, sessions>>

\* An index() that commits whatever the writer holds when the indexer fails.
PublishedOnErrorCommitting(store, dels, adds) == CommitResult(store, dels, adds)

\* What the index holds after index() returned early on an error of the indexer:
\* the writer is dropped without a commit, and its pending operations with it.
PublishedOnError(store, dels, adds) == store

\* index() returning an error: the writer (if any) and the mutex guard are dropped.
\* No rollback is called on this path.
WriterEndOnError(held) == IF held THEN "drop" ELSE "none"

\* An error return that leaves write_mutex locked.
FailSessionKeepingMutex(t, err) ==
    /\ pc' = [pc EXCEPT ![t] = "done"]
    /\ result' = [result EXCEPT ![t] = err]
    /\ writerEnd' = [writerEnd EXCEPT ![t] = WriterEndOnError(writerLock = t)]
    /\ writerLock' = IF writerLock = t THEN NoTask ELSE writerLock
    /\ mutex' = mutex
    /\ committed' = PublishedOnError(committed, pendDel[t], pendAdd[t])
    /\ pendDel' = [pendDel EXCEPT ![t] = {}]
    /\ pendAdd' = [pendAdd EXCEPT ![t] = EmptyBag]
    /\ UNCHANGED <<diskVars, dirSchema, instState, createLog,
                   inst, preSession, startedClean, cleanSince, sessions>>

FailSession(t, err) ==
    /\ pc' = [pc EXCEPT ![t] = "done"]
    /\ result' = [result EXCEPT ![t] = err]
    /\ writerEnd' = [writerEnd EXCEPT ![t] = WriterEndOnError(writerLock = t)]
    /\ writerLock' = IF writerLock = t THEN NoTask ELSE writerLock
    /\ mutex' = [mutex EXCEPT ![inst[t]] = NoTask]
    /\ committed' = PublishedOnError(committed, pendDel[t], pendAdd[t])
    /\ pendDel' = [pendDel EXCEPT ![t] = {}]
    /\ pendAdd' = [pendAdd EXCEPT ![t] = EmptyBag]
    /\ UNCHANGED <<diskVars, dirSchema, instState, createLog,
                   inst, preSession, startedClean, cleanSince, sessions>>

\* Indexer::write_handle: writer_with_num_threads fails while another writer
\* holds the directory's writer lock, and may fail otherwise.
WriteHandle(t) ==
    /\ pc[t] = "write_handle"
    /\ \E ok \in BOOLEAN :
          IF ok /\ writerLock = NoTask
          THEN /\ writerLock' = t
               /\ preSession' = [preSession EXCEPT ![t] = committed]
               /\ startedClean' = [startedClean EXCEPT ![t] = cleanSince]
               /\ pc' = [pc EXCEPT ![t] = "index"]
               /\ UNCHANGED <<diskVars, dirSchema, committed, instVars, walkVars,
                              inst, result, writerEnd, cleanSince, sessions>>
          ELSE /\ FailSession(t, "err_writer")
               /\ UNCHANGED <<existing, gitignores, stack, sessAdds, sessDels>>

\* File::index_repository up to the first read_dir of the walk.
StartIndexRepository(t) ==
    /\ pc[t] = "index"
    /\ \E ok \in BOOLEAN, order \in PushOrders :
          IF ok
          THEN /\ existing' = [existing EXCEPT ![t] = load_existing_docs(committed)]
               /\ gitignores' = [gitignores EXCEPT ![t] = LoadGitignores(order)]
               /\ stack' = [stack EXCEPT ![t] = <<[dir |-> Root, todo |-> DirEntries(Root)]>>]
               /\ pc' = [pc EXCEPT ![t] = "walk"]
               /\ UNCHANGED <<diskVars, indexVars, instVars, pendDel, pendAdd, sessAdds,
                              sessDels, inst, result, preSession, writerEnd,
                              startedClean, cleanSince, sessions>>
          ELSE /\ FailSession(t, "err_index")
               /\ UNCHANGED <<existing, gitignores, stack, sessAdds, sessDels>>

\* A variant of IndexFile that adds the document whatever the language.
IndexFileKeepingPlaintext(path, str, ex) ==
    LET hash == Sha256Hex(str)
        canon == Canonicalize(path)
        has == canon \in DOMAIN ex
        same == has /\ ex[canon] = hash
        lang == detect_language(path)
    IN  [canon |-> canon,
         del |-> has /\ ~same,
         add |-> ~same,
         doc |-> [path |-> canon, content |-> str, hash |-> hash, lang |-> lang]]

\* An indexer that keeps the stored hash of a path when it replaces the document.
IndexFileStaleHash(path, str, ex) ==
    LET hash == Sha256Hex(str)
        canon == Canonicalize(path)
        has == canon \in DOMAIN ex
        same == has /\ ex[canon] = hash
        lang == detect_language(path)
    IN  [canon |-> canon,
         del |-> has /\ ~same,
         add |-> ~same /\ lang # "plaintext",
         doc |-> [path |-> canon, content |-> str,
                  hash |-> IF has THEN ex[canon] ELSE hash, lang |-> lang]]

\* The decisions of traverse_and_index_files for one regular file whose bytes are
\* valid UTF-8: skip when the stored hash equals the new one, otherwise delete the
\* stored document (if any), and add the new one unless the entry's extension
\* maps to no language.
IndexFile(path, str, ex) ==
    LET hash == Sha256Hex(str)
        canon == Canonicalize(path)
        has == canon \in DOMAIN ex
        same == has /\ ex[canon] = hash
        lang == detect_language(path)
    IN  [canon |-> canon,
         del |-> has /\ ~same,
         add |-> ~same /\ lang # "plaintext",
         doc |-> [path |-> canon, content |-> str, hash |-> hash, lang |-> lang]]

\* writer.delete_term(path): pending, and it reaches the documents added earlier
\* through the same writer.
DeleteTerm(t, p) ==
    /\ pendDel' = [pendDel EXCEPT ![t] = @ \cup {p}]
    /\ sessDels' = [sessDels EXCEPT ![t][p] = @ + 1]

\* One entry of the directory being walked. fault is the failure, if any, of this
\* iteration: "io" for next_entry, read, canonicalize or the read_dir of a
\* subdirectory; "add" for add_document.
WalkEntry(t) ==
    /\ pc[t] = "walk"
    /\ stack[t] # <<>>
    /\ Head(stack[t]).todo # {}
    /\ \E name \in Head(stack[t]).todo, fault \in {"none", "io", "add"} :
          LET top == Head(stack[t])
              path == top.dir \o <<name>>
              rest == <<[top EXCEPT !.todo = @ \ {name}]>> \o Tail(stack[t])
              u == FromUtf8(ReadBytes(path))
              f == IndexFile(path, u.str, existing[t])
              skip == \/ is_ignored(gitignores[t], path)
                      \/ ~IsDirPath(path) /\ ~IsFilePath(path)
                      \/ ~IsDirPath(path) /\ ~u.ok
                      \/ ~IsDirPath(path) /\ ~f.del /\ ~f.add
          IN  CASE fault = "io" ->
                      /\ FailSession(t, "err_walk")
                      /\ UNCHANGED <<existing, gitignores, stack, sessAdds, sessDels>>
                [] fault # "io" /\ skip ->
                      /\ stack' = [stack EXCEPT ![t] = rest]
                      /\ UNCHANGED <<diskVars, indexVars, instVars, existing, gitignores,
                                     pendDel, pendAdd, sessAdds, sessDels, taskVars,
                                     cleanSince, sessions>>
                [] fault # "io" /\ ~skip /\ IsDirPath(path) ->
                      /\ stack' = [stack EXCEPT ![t] =
                                      <<[dir |-> path, todo |-> DirEntries(path)]>> \o rest]
                      /\ UNCHANGED <<diskVars, indexVars, instVars, existing, gitignores,
                                     pendDel, pendAdd, sessAdds, sessDels, taskVars,
                                     cleanSince, sessions>>
                [] fault # "io" /\ ~skip /\ ~IsDirPath(path) /\ ~f.add ->
                      \* deleted, then skipped as plaintext
                      /\ DeleteTerm(t, f.canon)
                      /\ pendAdd' = [pendAdd EXCEPT ![t] = WithoutPath(@, f.canon)]
                      /\ stack' = [stack EXCEPT ![t] = rest]
                      /\ UNCHANGED <<diskVars, indexVars, instVars, existing, gitignores,
                                     sessAdds, taskVars, cleanSince, sessions>>
                [] fault = "add" /\ ~skip /\ ~IsDirPath(path) /\ f.add ->
                      \* add_document failed, after the delete_term (if any)
                      /\ FailSession(t, "err_walk")
                      /\ sessDels' = [sessDels EXCEPT ![t][f.canon] =
                                         IF f.del THEN @ + 1 ELSE @]
                      /\ sessAdds' = [sessAdds EXCEPT ![t][f.canon] = @ + 1]
                      /\ UNCHANGED <<existing, gitignores, stack>>
                [] fault = "none" /\ ~skip /\ ~IsDirPath(path) /\ f.add ->
                      /\ pendDel' = [pendDel EXCEPT ![t] =
                                        IF f.del THEN @ \cup {f.canon} ELSE @]
                      /\ sessDels' = [sessDels EXCEPT ![t][f.canon] =
                                         IF f.del THEN @ + 1 ELSE @]
                      /\ pendAdd' = [pendAdd EXCEPT ![t] =
                                        (IF f.del THEN WithoutPath(@, f.canon) ELSE @)
                                            (+) SetToBag({f.doc})]
                      /\ sessAdds' = [sessAdds EXCEPT ![t][f.canon] = @ + 1]
                      /\ stack' = [stack EXCEPT ![t] = rest]
                      /\ UNCHANGED <<diskVars, indexVars, instVars, existing, gitignores,
                                     taskVars, cleanSince, sessions>>

\* A walk that commits at the end of every directory.
WalkDirDoneCommitting(t) ==
    /\ pc[t] = "walk"
    /\ stack[t] # <<>>
    /\ Head(stack[t]).todo = {}
    /\ stack' = [stack EXCEPT ![t] = Tail(@)]
    /\ pc' = [pc EXCEPT ![t] = IF Tail(stack[t]) = <<>> THEN "commit" ELSE "walk"]
    /\ committed' = CommitResult(committed, pendDel[t], pendAdd[t])
    /\ pendDel' = [pendDel EXCEPT ![t] = {}]
    /\ pendAdd' = [pendAdd EXCEPT ![t] = EmptyBag]
    /\ UNCHANGED <<diskVars, dirSchema, writerLock, instVars, existing, gitignores,
                   sessAdds, sessDels, inst, result, preSession, writerEnd, startedClean,
                   cleanSince, sessions>>

\* next_entry returned None: this level of the recursion returns Ok(()).
WalkDirDone(t) ==
    /\ pc[t] = "walk"
    /\ stack[t] # <<>>
    /\ Head(stack[t]).todo = {}
    /\ stack' = [stack EXCEPT ![t] = Tail(@)]
    /\ pc' = [pc EXCEPT ![t] = IF Tail(stack[t]) = <<>> THEN "commit" ELSE "walk"]
    /\ UNCHANGED <<diskVars, indexVars, instVars, existing, gitignores, pendDel, pendAdd,
                   sessAdds, sessDels, inst, result, preSession, writerEnd, startedClean,
                   cleanSince, sessions>>

\* IndexWriteHandle::commit, and the return of Indexes::index: writer.commit()
\* publishes the pending operations or fails; reader.reload() may then fail.
Commit(t) ==
    /\ pc[t] = "commit"
    /\ \E outcome \in {"ok", "commit_err", "reload_err"} :
          /\ committed' = IF outcome = "commit_err" THEN committed
                          ELSE CommitResult(committed, pendDel[t], pendAdd[t])
          /\ writerEnd' = [writerEnd EXCEPT ![t] =
                              IF outcome = "commit_err" THEN "drop" ELSE "commit"]
          /\ result' = [result EXCEPT ![t] =
                           CASE outcome = "ok" -> "ok"
                             [] outcome = "commit_err" -> "err_commit"
                             [] OTHER -> "err_reload"]
          /\ cleanSince' = CASE outcome = "ok" -> TRUE
                             [] outcome = "reload_err" -> FALSE
                             [] OTHER -> cleanSince
    /\ pc' = [pc EXCEPT ![t] = "done"]
    /\ writerLock' = NoTask
    /\ mutex' = [mutex EXCEPT ![inst[t]] = NoTask]
    /\ pendDel' = [pendDel EXCEPT ![t] = {}]
    /\ pendAdd' = [pendAdd EXCEPT ![t] = EmptyBag]
    /\ UNCHANGED <<diskVars, dirSchema, instState, createLog, existing,
                   gitignores, stack, sessAdds, sessDels, inst, preSession,
                   startedClean, sessions>>

\* The caller has the result; the task is free for another call.
Return(t) ==
    /\ pc[t] = "done"
    /\ pc' = [pc EXCEPT ![t] = "idle"]
    /\ result' = [result EXCEPT ![t] = "none"]
    /\ existing' = [existing EXCEPT ![t] = <<>>]
    /\ gitignores' = [gitignores EXCEPT ![t] = <<>>]
    /\ stack' = [stack EXCEPT ![t] = <<>>]
    /\ sessAdds' = [sessAdds EXCEPT ![t] = ZeroCounts]
    /\ sessDels' = [sessDels EXCEPT ![t] = ZeroCounts]
    /\ preSession' = [preSession EXCEPT ![t] = EmptyBag]
    /\ writerEnd' = [writerEnd EXCEPT ![t] = "none"]
    /\ startedClean' = [startedClean EXCEPT ![t] = FALSE]
    /\ UNCHANGED <<diskVars, indexVars, instVars, pendDel, pendAdd, inst, cleanSince,
                   sessions>>

\* ------------------------------------------------------------ specification

SeqTask == "t1"
SeqInstance == "i1"

Next ==
    \/ \E f \in EditableFiles, bytes \in FileContents : WriteFile(f, bytes) /\ UNCHANGED searchVars
    \/ \E f \in EditableFiles : RemoveFile(f) /\ UNCHANGED searchVars
    \/ \E dir \in GiDirs : \E file \in RuleFilesOf(dir) : SetGitignore(dir, file) /\ UNCHANGED searchVars
    \/ Create(SeqInstance) /\ UNCHANGED searchVars
    \/ CallIndex(SeqTask, SeqInstance) /\ UNCHANGED searchVars
    \/ AcquireMutex(SeqTask) /\ UNCHANGED searchVars
    \/ WriteHandle(SeqTask) /\ UNCHANGED searchVars
    \/ StartIndexRepository(SeqTask) /\ UNCHANGED searchVars
    \/ WalkEntry(SeqTask) /\ UNCHANGED searchVars
    \/ WalkDirDone(SeqTask) /\ UNCHANGED searchVars
    \/ Commit(SeqTask) /\ UNCHANGED searchVars
    \/ Return(SeqTask) /\ UNCHANGED searchVars

Spec == Init /\ [][Next]_vars

\* Concurrent callers on two Indexes values over one index directory, which may
\* hold an index of another schema; the tree does not change.
InitConc ==
    /\ PlainTree
    /\ linkExt = "none"
    /\ dirSchema \in {"none", "mismatch"}
    /\ InitRest
    /\ SearcherIdle

NextConc ==
    \/ \E i \in Instances : Create(i) /\ UNCHANGED searchVars
    \/ \E t \in Tasks, i \in Instances : CallIndex(t, i) /\ UNCHANGED searchVars
    \/ \E t \in Tasks : AcquireMutex(t) /\ UNCHANGED searchVars
    \/ \E t \in Tasks : WriteHandle(t) /\ UNCHANGED searchVars
    \/ \E t \in Tasks : StartIndexRepository(t) /\ UNCHANGED searchVars
    \/ \E t \in Tasks : WalkEntry(t) /\ UNCHANGED searchVars
    \/ \E t \in Tasks : WalkDirDone(t) /\ UNCHANGED searchVars
    \/ \E t \in Tasks : Commit(t) /\ UNCHANGED searchVars
    \/ \E t \in Tasks : Return(t) /\ UNCHANGED searchVars

SpecConc == InitConc /\ [][NextConc]_vars

\* The steps of one call of Indexes::index after the call was made. The runtime
\* keeps polling a task that can make progress, and write_mutex wakes a waiter
\* when it is released: a step that stays possible is eventually taken.
TaskStep(t) ==
    /\ \/ AcquireMutex(t)
       \/ WriteHandle(t)
       \/ StartIndexRepository(t)
       \/ WalkEntry(t)
       \/ WalkDirDone(t)
       \/ Commit(t)
       \/ Return(t)
    /\ UNCHANGED searchVars

SpecConcFair == SpecConc /\ \A t \in Tasks : WF_vars(TaskStep(t))

\* ------------------------------------------------------------ properties

InSessionPcs == {"index", "walk", "commit"}
Finished(t) == pc[t] = "done"
Succeeded(t) == pc[t] = "done" /\ result[t] = "ok"

\* Every live document of one path carries the same hash, which makes
\* load_existing_docs independent of the order of the segments.
SamePathSameHash ==
    \A d, e \in DOMAIN committed : d.path = e.path => d.hash = e.hash

\* The walk of session t reaches path p: the entry exists and neither it nor the
\* directory above it is ignored.
Reaches(t, p) ==
    /\ p \in EntryPaths
    /\ ~is_ignored(gitignores[t], p)
    /\ Len(p) = 2 => ~is_ignored(gitignores[t], SubSeq(p, 1, 1))

\* C1 (as claimed): a session that starts after a successful session, with no
\* change of the tree or of the index since, issues no delete_term and no
\* add_document, and leaves the stored documents as they were.
C1_ReindexIdempotent ==
    \A t \in Tasks :
        (startedClean[t] /\ pc[t] \in {"walk", "commit", "done"}) =>
            /\ \A p \in CanonPaths : sessAdds[t][p] = 0 /\ sessDels[t][p] = 0
            /\ Succeeded(t) => committed = preSession[t]

\* C2 (as claimed): after a successful session, a file the walk reaches, which
\* had a stored document and now holds other valid UTF-8 content, has exactly one
\* live document, with the new content and its SHA-256.
ChangedSinceStored(t, f) ==
    /\ DocsAt(preSession[t], f) > 0
    /\ FromUtf8(fileBytes[f]).ok
    /\ \A d \in DOMAIN preSession[t] : d.path = f => d.content # fileBytes[f]

C2_HashChangeUpdate ==
    \A t \in Tasks : \A f \in RealFiles :
        (Succeeded(t) /\ Reaches(t, f) /\ ChangedSinceStored(t, f)) =>
            /\ DocsAt(committed, f) = 1
            /\ \A d \in DOMAIN committed : d.path = f =>
                    d.content = fileBytes[f] /\ d.hash = Sha256Hex(fileBytes[f])

\* C3 (as claimed): the committed store holds at most one live document per path,
\* and a session calls add_document at most once per canonical path.
C3_PathUnique ==
    /\ \A p \in CanonPaths : DocsAt(committed, p) <= 1
    /\ \A t \in Tasks : \A p \in CanonPaths : sessAdds[t][p] <= 1

\* What a reader opened or reloaded now observes: the committed documents.
ReaderView == committed

PastMutex(t) == pc[t] \in {"write_handle"} \cup InSessionPcs

C5_SingleWriter ==
    Cardinality({t \in Tasks : PastMutex(t)}) <= 1

\* C6: a session that failed in the indexer (enumeration, read, canonicalization)
\* never committed, and the committed store is what it was before the session.
C6_NoPartialCommit ==
    \A t \in Tasks :
        (Finished(t) /\ result[t] \in {"err_index", "err_walk"}) =>
            /\ writerEnd[t] # "commit"
            /\ committed = preSession[t]

\* C6 witness: a walk failed after it had deleted and added documents.
C6_Witness ==
    \E t \in Tasks : \E p \in CanonPaths :
        /\ Finished(t) /\ result[t] = "err_walk"
        /\ sessDels[t][p] > 0 /\ sessAdds[t][p] > 0
        /\ committed # EmptyBag

\* C7 (as claimed): a session that obtained its writer ends with a commit when it
\* succeeds and with a rollback when the indexer or the commit fails.
C7_RollbackOnFailure ==
    \A t \in Tasks :
        (Finished(t) /\ result[t] # "err_writer") =>
            /\ writerEnd[t] \in {"commit", "rollback"}
            /\ result[t] \in {"err_index", "err_walk", "err_commit"} =>
                    writerEnd[t] = "rollback"

\* C8 (as claimed): a schema mismatch is followed by the removal of the directory
\* and exactly one retry.
C8_RetryOnceAsClaimed ==
    \A i \in Instances :
        createLog[i].first = "mismatch" =>
            createLog[i].removed /\ createLog[i].inits = 2

\* C8 (amended): a schema mismatch is followed by exactly one remove_dir_all; when
\* the removal succeeds opening is retried exactly once, and when it fails the
\* error is returned with no retry; a successful retry leaves no document of the
\* previous index, and a failed retry fails create with no further delete or retry.
C8_SchemaRecovery ==
    \A i \in Instances :
        /\ createLog[i].inits <= 2 /\ createLog[i].removes <= 1
        /\ createLog[i].first = "mismatch" =>
            /\ createLog[i].removes = 1
            /\ createLog[i].inits = IF createLog[i].removed THEN 2 ELSE 1
            /\ ~createLog[i].removed => instState[i] = "failed"
            /\ instState[i] = "ready" => OldDoc \notin DOMAIN committed

\* C8 witness: create met the mismatch, removed the directory and its retry
\* succeeded.
C8_Witness ==
    \E i \in Instances :
        /\ createLog[i].first = "mismatch"
        /\ createLog[i].removed
        /\ instState[i] = "ready"

\* The .gitignore files whose directory is a prefix of the path and whose match
\* on the path is not None.
Deciding(gis, path) ==
    {k \in DOMAIN gis :
        /\ StartsWith(path, gis[k].dir)
        /\ Matched(gis[k].rules, StripPrefix(path, gis[k].dir)) # "None"}

\* The decision of the deepest of them; false when there is none.
NearestDecision(gis, path) ==
    IF Deciding(gis, path) = {} THEN FALSE
    ELSE LET k == CHOOSE j \in Deciding(gis, path) :
                      \A m \in Deciding(gis, path) : Len(gis[m].dir) <= Len(gis[j].dir)
         IN  Matched(gis[k].rules, StripPrefix(path, gis[k].dir)) = "Ignore"

\* C9: is_ignored returns the decision of the deepest .gitignore that is above the
\* path and matches it, and false when none does.
C9_NearestAncestor ==
    \A t \in Tasks : \A p \in AllPaths :
        is_ignored(gitignores[t], p) = NearestDecision(gitignores[t], p)

\* C9 witness: two loaded .gitignore files decide a path differently and the
\* deeper one wins.
C9_Witness ==
    \E t \in Tasks : \E p \in AllPaths :
        /\ Len(gitignores[t]) = 2
        /\ Cardinality(Deciding(gitignores[t], p)) = 2
        /\ Matched(gitignores[t][2].rules, StripPrefix(p, gitignores[t][2].dir)) = "Ignore"
        /\ ~is_ignored(gitignores[t], p)

\* The tree of the ignore-precedence scenario.
LogScenario ==
    /\ giRules[Root] = GiFile(<<StarLog>>)
    /\ giRules[Sub] = GiFile(<<NotKeepLog>>)
    /\ fileBytes[ALog] # NoFile
    /\ fileBytes[KeepLog] # NoFile

\* C10 (as claimed): after a successful session over that tree a.log has no
\* stored document and sub/keep.log has one.
C10_KeepLogIndexed ==
    \A t \in Tasks :
        (Succeeded(t) /\ LogScenario) =>
            DocsAt(committed, ALog) = 0 /\ DocsAt(committed, KeepLog) >= 1

\* C10 (amended): after a successful session over that tree a.log is ignored and
\* has no stored document; sub/keep.log is not ignored and the walk reaches it,
\* but it has no stored document either: .log maps to no language.
C10_KeepLogNotIgnored ==
    \A t \in Tasks :
        (Succeeded(t) /\ LogScenario) =>
            /\ is_ignored(gitignores[t], ALog)
            /\ DocsAt(committed, ALog) = 0
            /\ Reaches(t, KeepLog)
            /\ DocsAt(committed, KeepLog) = 0

\* C10 witness: a successful session over that tree, which stored a.py.
C10_Witness ==
    \E t \in Tasks :
        /\ Succeeded(t) /\ LogScenario
        /\ DocsAt(committed, APy) >= 1

\* ------------------------------------------------------------ text

\* A text (a Rust String) is a sequence of characters; a character is written as
\* a one-character string, except the one two-byte character of the model.
NL == "\n"
EAcute == "e-acute"
\* char::len_utf8.
Utf8Len(c) == IF c = EAcute THEN 2 ELSE 1

\* The byte length of the first k characters of a text.
RECURSIVE ByteLenUpTo(_, _)
ByteLenUpTo(text, k) ==
    IF k = 0 THEN 0 ELSE ByteLenUpTo(text, k - 1) + Utf8Len(text[k])

\* str::len, and content_str.chars().map(|c| c.len_utf8()).sum().
ByteLen(text) == ByteLenUpTo(text, Len(text))

\* A byte offset is a char boundary when some prefix of the text ends there.
IsCharBoundary(text, b) == \E k \in 0..Len(text) : ByteLenUpTo(text, k) = b
CharsBefore(text, b) == CHOOSE k \in 0..Len(text) : ByteLenUpTo(text, k) = b

\* &text[start..end] with byte offsets: Rust panics when the range is reversed,
\* runs past the end or cuts a character.
Slice(text, start, end) ==
    IF start <= end /\ end <= ByteLen(text)
          /\ IsCharBoundary(text, start) /\ IsCharBoundary(text, end)
    THEN [ok |-> TRUE,
          str |-> SubSeq(text, CharsBefore(text, start) + 1, CharsBefore(text, end))]
    ELSE [ok |-> FALSE, str |-> <<>>]

\* The character positions (1-based) at which needle occurs in hay.
Occurrences(hay, needle) ==
    {k \in 1..(Len(hay) - Len(needle) + 1) : SubSeq(hay, k, k + Len(needle) - 1) = needle}

\* str::contains.
Contains(hay, needle) == Occurrences(hay, needle) # {}

\* str::find of a needle the text contains: the byte offset of the first occurrence.
Find(hay, needle) ==
    LET first == CHOOSE k \in Occurrences(hay, needle) :
                     \A j \in Occurrences(hay, needle) : k <= j
    IN  ByteLenUpTo(hay, first - 1)

\* char::to_lowercase for the characters of the model, and str::to_lowercase.
ToLowerChar(c) ==
    CASE c = "H" -> "h"
      [] c = "F" -> "f"
      [] OTHER -> c
ToLowercase(text) == [k \in 1..Len(text) |-> ToLowerChar(text[k])]
HasUppercase(text) == ToLowercase(text) # text

\* [..].join("\n").
RECURSIVE JoinNL(_)
JoinNL(parts) ==
    IF parts = <<>> THEN <<>>
    ELSE IF Len(parts) = 1 THEN parts[1]
    ELSE parts[1] \o <<NL>> \o JoinNL(Tail(parts))

\* ------------------------------------------------------------ line_end_indices

\* `as u32` of a byte offset: the value itself for every offset below 2^32, and
\* the offsets of the model's texts (like every number TLC holds) are below 2^31.
AsU32(n) == n

\* u32::to_le_bytes and u32::from_le_bytes.
ToLeBytes(n) ==
    <<n % 256, (n \div 256) % 256, (n \div 65536) % 256, (n \div 16777216) % 256>>
FromLeBytes(c) == c[1] + 256 * c[2] + 65536 * c[3] + 16777216 * c[4]

\* content_str.match_indices('\n'): the byte offset of every newline, in order.
RECURSIVE MatchIndicesNL(_, _)
MatchIndicesNL(text, k) ==
    IF k = 0 THEN <<>>
    ELSE MatchIndicesNL(text, k - 1)
            \o (IF text[k] = NL THEN <<ByteLenUpTo(text, k - 1)>> ELSE <<>>)

RECURSIVE FlatMapLeBytes(_)
FlatMapLeBytes(offsets) ==
    IF offsets = <<>> THEN <<>>
    ELSE ToLeBytes(AsU32(Head(offsets))) \o FlatMapLeBytes(Tail(offsets))

\* line_end_indices without the final entry.
LineEndIndicesBytesUnterminated(text) == FlatMapLeBytes(MatchIndicesNL(text, Len(text)))

\* The stored line_end_indices bytes of a content: every newline offset, then the
\* byte length of the content.
LineEndIndicesBytes(text) ==
    FlatMapLeBytes(MatchIndicesNL(text, Len(text))) \o ToLeBytes(AsU32(ByteLen(text)))

\* bytes.chunks_exact(4).map(u32::from_le_bytes).collect(): a remainder shorter
\* than four bytes is dropped.
DecodeLineEndIndices(bytes) ==
    [k \in 1..(Len(bytes) \div 4) |-> FromLeBytes(SubSeq(bytes, 4 * k - 3, 4 * k))]

\* ------------------------------------------------------------ syntactic extractor

\* The extractor (TreeSitterFile, scope graphs) is described by the specification
\* only: identifier tokens are the maximal runs of letters that are not keywords;
\* an identifier that follows `def ` is a definition, any other is a reference; a
\* reference resolves to the first definition of the same text in its document.
Letters ==
    {"a", "b", "c", "d", "e", "f", "g", "h", "i", "j", "k", "l", "m", "n", "o", "p",
     "q", "r", "s", "t", "u", "v", "w", "x", "y", "z", "F", "H", EAcute}
DefKeyword == <<"d", "e", "f">>
Keywords ==
    {DefKeyword, <<"f", "r", "o", "m">>, <<"i", "m", "p", "o", "r", "t">>,
     <<"p", "a", "s", "s">>}

\* A point of a TextRange after the first k characters: zero-based line, column
\* and byte.
Position(text, k) ==
    LET nls == {j \in 1..k : text[j] = NL}
        lastNl == IF nls = {} THEN 0 ELSE CHOOSE j \in nls : \A i \in nls : i <= j
    IN  [line |-> Cardinality(nls),
         column |-> ByteLenUpTo(text, k) - ByteLenUpTo(text, lastNl),
         byte |-> ByteLenUpTo(text, k)]

\* The nodes of the scope graph of a text: kind, TextRange and surface text.
ScopeNodes(text) ==
    LET isId(k) == k >= 1 /\ k <= Len(text) /\ text[k] \in Letters
        runs == {r \in (1..Len(text)) \X (1..Len(text)) :
                    /\ r[1] <= r[2]
                    /\ \A k \in r[1]..r[2] : isId(k)
                    /\ ~isId(r[1] - 1) /\ ~isId(r[2] + 1)}
        afterDef(r) == r[1] > 4 /\ SubSeq(text, r[1] - 4, r[1] - 1) = DefKeyword \o <<" ">>
    IN  {[kind |-> IF afterDef(r) THEN "def" ELSE "ref",
          range |-> [start |-> Position(text, r[1] - 1), end |-> Position(text, r[2])],
          name |-> SubSeq(text, r[1], r[2])] :
            r \in {q \in runs : SubSeq(text, q[1], q[2]) \notin Keywords}}

\* TreeSitterFile::hoverable_ranges: the ranges of the identifier tokens.
HoverableRangesOf(text) == {n.range : n \in ScopeNodes(text)}

\* A set of nodes or ranges as a list ordered by start byte.
RECURSIVE SortByStartByte(_)
SortByStartByte(S) ==
    IF S = {} THEN <<>>
    ELSE LET first == CHOOSE x \in S :
                          \A y \in S : IF "range" \in DOMAIN x
                                       THEN x.range.start.byte <= y.range.start.byte
                                       ELSE x.start.byte <= y.start.byte
         IN  <<first>> \o SortByStartByte(S \ {first})

\* ------------------------------------------------------------ stored documents

\* The canonical absolute path of the indexed root, and absolute_path_str: what
\* the path field of a document holds.
AbsoluteRoot == <<"home", "repo">>
AbsolutePathStr(path) == AbsoluteRoot \o Canonicalize(path)

\* The tantivy document traverse_and_index_files builds for a file of a supported
\* language.
BuildDoc(path, content_str) ==
    [path |-> AbsolutePathStr(path),
     content |-> content_str,
     content_insensitive |-> ToLowercase(content_str),
     symbol_locations |-> ScopeNodes(content_str),
     line_end_indices |-> LineEndIndicesBytes(content_str),
     lang |-> detect_language(path),
     hash |-> Sha256Hex(content_str)]

\* The documents a first indexing session over the given files commits, in the
\* order they were added: files mapped to no language are not stored.
RECURSIVE IndexedDocs(_)
IndexedDocs(files) ==
    IF files = <<>> THEN <<>>
    ELSE (IF detect_language(Head(files).path) = "plaintext" THEN <<>>
          ELSE <<BuildDoc(Head(files).path, Head(files).text)>>)
            \o IndexedDocs(Tail(files))

\* Searcher::load_all_documents: the live documents of a language as
\* ContentDocuments.
load_all_documents(docs, lang) ==
    LET ofLang == SelectSeq(docs, LAMBDA d : d.lang = lang)
    IN  [k \in 1..Len(ofLang) |->
            [content |-> ofLang[k].content,
             lang |-> lang,
             relative_path |-> ofLang[k].path,
             line_end_indices |-> DecodeLineEndIndices(ofLang[k].line_end_indices),
             symbol_locations |-> ofLang[k].symbol_locations]]

\* ------------------------------------------------------------ token info

\* A conversion that takes the character indices of the word for byte offsets.
line_word_to_byte_range_char_offsets(content, line_end_indices, line_number, word_start_index, word_end_index) ==
    IF line_number = 0 \/ line_number > Len(line_end_indices)
    THEN [kind |-> "err", error |-> "Invalid line number"]
    ELSE LET start_of_line == IF line_number = 1 THEN 0
                              ELSE line_end_indices[line_number - 1] + 1
             end_of_line == line_end_indices[line_number]
             line == Slice(content, start_of_line, end_of_line)
         IN  IF ~line.ok THEN [kind |-> "panic", error |-> "slice"]
             ELSE IF word_start_index >= word_end_index \/ word_end_index > Len(line.str)
             THEN [kind |-> "err", error |-> "Invalid word indices"]
             ELSE [kind |-> "ok",
                   start_byte |-> start_of_line + word_start_index,
                   end_byte |-> start_of_line + word_end_index]

\* line_word_to_byte_range without the validation of the word indices.
line_word_to_byte_range_unvalidated(content, line_end_indices, line_number, word_start_index, word_end_index) ==
    IF line_number = 0 \/ line_number > Len(line_end_indices)
    THEN [kind |-> "err", error |-> "Invalid line number"]
    ELSE LET start_of_line == IF line_number = 1 THEN 0
                              ELSE line_end_indices[line_number - 1] + 1
             line == Slice(content, start_of_line, line_end_indices[line_number])
             taken(n) == IF n > Len(line.str) THEN Len(line.str) ELSE n
         IN  IF ~line.ok THEN [kind |-> "panic", error |-> "slice"]
             ELSE [kind |-> "ok",
                   start_byte |-> start_of_line + ByteLenUpTo(line.str, taken(word_start_index)),
                   end_byte |-> start_of_line + ByteLenUpTo(line.str, taken(word_end_index))]

\* Searcher::line_word_to_byte_range. kind is "ok", "err" (an Err is returned) or
\* "panic" (a slice out of range).
line_word_to_byte_range(content, line_end_indices, line_number, word_start_index, word_end_index) ==
    IF line_number = 0 \/ line_number > Len(line_end_indices)
    THEN [kind |-> "err", error |-> "Invalid line number"]
    ELSE LET start_of_line == IF line_number = 1 THEN 0
                              ELSE line_end_indices[line_number - 1] + 1
             end_of_line == line_end_indices[line_number]
             line == Slice(content, start_of_line, end_of_line)
         IN  IF ~line.ok THEN [kind |-> "panic", error |-> "slice"]
             ELSE IF word_start_index >= word_end_index \/ word_end_index > Len(line.str)
             THEN [kind |-> "err", error |-> "Invalid word indices"]
             ELSE [kind |-> "ok",
                   start_byte |-> start_of_line + ByteLenUpTo(line.str, word_start_index),
                   end_byte |-> start_of_line + ByteLenUpTo(line.str, word_end_index)]

\* CodeNavigationContext::token_info, from the specification's algorithm: the
\* node at the byte range; a reference resolved to its local definition; the
\* local pass; the cross-document pass by surface text; grouped by file, source
\* document first, occurrences ordered by start byte.
LocalDefinition(nodes, node) ==
    LET defs == {d \in nodes : d.kind = "def" /\ d.name = node.name}
    IN  IF defs = {} THEN {}
        ELSE {CHOOSE d \in defs : \A e \in defs : d.range.start.byte <= e.range.start.byte}

\* A search that always begins at the token itself.
SearchStartAtToken(nodes, node) == node

SearchStart(nodes, node) ==
    IF node.kind = "ref" /\ LocalDefinition(nodes, node) # {}
    THEN CHOOSE d \in LocalDefinition(nodes, node) : TRUE
    ELSE node

Occurrence(node) ==
    [kind |-> IF node.kind = "def" THEN "Definition" ELSE "Reference", range |-> node.range]

CodeNavTokenInfo(all_docs, source_document_idx, start_byte, end_byte) ==
    LET src == all_docs[source_document_idx].symbol_locations
        at == {n \in src : n.range.start.byte = start_byte /\ n.range.end.byte = end_byte}
    IN  IF at = {} THEN <<>>
        ELSE LET start == SearchStart(src, CHOOSE n \in at : TRUE)
                 localNodes ==
                    IF start.kind = "def"
                    THEN {start} \cup {r \in src : r.kind = "ref"
                                         /\ LocalDefinition(src, r) = {start}}
                    ELSE {r \in src : r.kind = "ref" /\ r.name = start.name}
                 nodesOf(k) ==
                    IF k = source_document_idx THEN localNodes
                    ELSE {n \in all_docs[k].symbol_locations : n.name = start.name}
                 fileSymbols(k) ==
                    [file |-> all_docs[k].relative_path,
                     data |-> LET sorted == SortByStartByte(nodesOf(k))
                              IN  [j \in 1..Len(sorted) |-> Occurrence(sorted[j])]]
                 order == <<source_document_idx>>
                            \o SelectSeq([k \in 1..Len(all_docs) |-> k],
                                         LAMBDA k : k # source_document_idx)
                 nonEmpty == SelectSeq(order, LAMBDA k : nodesOf(k) # {})
             IN  [j \in 1..Len(nonEmpty) |-> fileSymbols(nonEmpty[j])]

\* The index of the first document with the given path, 0 when there is none.
PositionOfPath(all_docs, relative_path) ==
    LET hits == {k \in 1..Len(all_docs) : all_docs[k].relative_path = relative_path}
    IN  IF hits = {} THEN 0 ELSE CHOOSE k \in hits : \A j \in hits : k <= j

\* The presentation adjustment of token_info: line + 1 at both ends of a range.
AdjustLines(range) ==
    [start |-> [range.start EXCEPT !.line = @ + 1],
     end |-> [range.end EXCEPT !.line = @ + 1]]

\* Searcher::token_info.
token_info(docs, relative_path, line, start_index, end_index) ==
    LET all_docs == load_all_documents(docs, detect_language(relative_path))
        source_document_idx == PositionOfPath(all_docs, relative_path)
    IN  IF source_document_idx = 0
        THEN [kind |-> "err", error |-> "Source document not found"]
        ELSE LET doc == all_docs[source_document_idx]
                 bytes == line_word_to_byte_range(doc.content, doc.line_end_indices,
                                                  line, start_index, end_index)
             IN  IF bytes.kind # "ok" THEN bytes
                 ELSE LET data == CodeNavTokenInfo(all_docs, source_document_idx,
                                                   bytes.start_byte, bytes.end_byte)
                      IN  [kind |-> "ok",
                           data |-> [f \in 1..Len(data) |->
                                        [file |-> data[f].file,
                                         data |-> [o \in 1..Len(data[f].data) |->
                                                     [kind |-> data[f].data[o].kind,
                                                      range |-> AdjustLines(data[f].data[o].range)]]]]]

\* ContentDocument::hoverable_ranges, and Searcher::get_hoverable_ranges: the
\* ranges are returned as the extractor produced them.
hoverable_ranges(doc) == SortByStartByte(HoverableRangesOf(doc.content))

get_hoverable_ranges(docs, relative_path) ==
    LET all_docs == load_all_documents(docs, detect_language(relative_path))
        idx == PositionOfPath(all_docs, relative_path)
    IN  IF idx = 0 THEN [kind |-> "err", error |-> "Document not found"]
        ELSE [kind |-> "ok", ranges |-> hoverable_ranges(all_docs[idx])]

\* Searcher::format_hoverable_ranges: the four numbers the entry point prints.
format_hoverable_ranges(ranges) ==
    [k \in 1..Len(ranges) |->
        [start_line |-> ranges[k].start.line, start_column |-> ranges[k].start.column,
         end_line |-> ranges[k].end.line, end_column |-> ranges[k].end.column]]

\* ------------------------------------------------------------ text search

\* The terms tantivy indexes for a TEXT field (default tokenizer): the maximal
\* runs of letters, lower-cased.
Tokenize(text) ==
    LET isAl(k) == k >= 1 /\ k <= Len(text) /\ text[k] \in Letters
    IN  {ToLowercase(SubSeq(text, r[1], r[2])) :
            r \in {q \in (1..Len(text)) \X (1..Len(text)) :
                      /\ q[1] <= q[2]
                      /\ \A k \in q[1]..q[2] : isAl(k)
                      /\ ~isAl(q[1] - 1) /\ ~isAl(q[2] + 1)}}

\* TopDocs::with_limit(10) over the documents matching the parsed query in a
\* field: a document matches when it holds one of the query's terms. The model
\* ranks the matching documents equal, so the first ones in document order are
\* taken.
TopDocsLimit == 10
TopDocs(docs, field, query_str) ==
    LET hits == SelectSeq(docs, LAMBDA d : Tokenize(d[field]) \cap Tokenize(query_str) # {})
    IN  SubSeq(hits, 1, IF Len(hits) < TopDocsLimit THEN Len(hits) ELSE TopDocsLimit)

\* A context window that subtracts three from the line number without a clamp.
text_search_context_unclamped(line_number, len) ==
    [start |-> line_number - 3,
     end |-> IF line_number + 3 < len - 1 THEN line_number + 3 ELSE len - 1]

\* text_search's context window for a match on line_number, as indices into a
\* line_end_indices of len entries: start clamped at 0, end at the last entry.
text_search_context(line_number, len) ==
    [start |-> IF line_number >= 3 THEN line_number - 3 ELSE 0,
     end |-> IF line_number + 3 < len - 1 THEN line_number + 3 ELSE len - 1]

\* A slice line_end_indices[start..=end] the build can take: a negative start
\* is a usize subtraction that overflowed, which panics or wraps out of range.
ContextInRange(ctx, len) == 0 <= ctx.start /\ ctx.start <= ctx.end /\ ctx.end <= len - 1

\* The body of text_search's loop over line_end_indices.windows(2) for one
\* retrieved document: window number i (from 0) holds the offsets of the newline
\* before a line and of the end of that line. A result, no result, or a panic.
TextSearchWindow(doc, field, query_str, i) ==
    LET line_end_indices == DecodeLineEndIndices(doc.line_end_indices)
        at(j) == line_end_indices[j + 1]
        line == Slice(doc[field], at(i), at(i + 1))
        line_number == i + 2
        ctx == text_search_context(line_number, Len(line_end_indices))
        context_start == ctx.start
        context_end == ctx.end
        pieces == [j \in 1..(context_end - context_start) |->
                      Slice(doc.content, at(context_start + j - 1), at(context_start + j))]
    IN  IF ~line.ok THEN <<[panic |-> TRUE]>>
        ELSE IF ~Contains(line.str, query_str) THEN <<>>
        ELSE IF ~ContextInRange(ctx, Len(line_end_indices)) THEN <<[panic |-> TRUE]>>
        ELSE IF \E j \in DOMAIN pieces : ~pieces[j].ok THEN <<[panic |-> TRUE]>>
        ELSE <<[panic |-> FALSE,
                path |-> doc.path,
                line_number |-> line_number,
                column |-> Find(line.str, query_str),
                context |-> JoinNL([j \in DOMAIN pieces |-> pieces[j].str])]>>

RECURSIVE TextSearchWindows(_, _, _, _)
TextSearchWindows(doc, field, query_str, n) ==
    IF n = 0 THEN <<>>
    ELSE TextSearchWindows(doc, field, query_str, n - 1)
            \o TextSearchWindow(doc, field, query_str, n - 1)

RECURSIVE TextSearchDocs(_, _, _)
TextSearchDocs(top_docs, field, query_str) ==
    IF top_docs = <<>> THEN <<>>
    ELSE TextSearchWindows(Head(top_docs), field, query_str,
                           Len(DecodeLineEndIndices(Head(top_docs).line_end_indices)) - 1)
            \o TextSearchDocs(Tail(top_docs), field, query_str)

\* Searcher::text_search.
text_search(docs, query, case_sensitive) ==
    LET field == IF case_sensitive THEN "content" ELSE "content_insensitive"
        query_str == IF case_sensitive THEN query ELSE ToLowercase(query)
        found == TextSearchDocs(TopDocs(docs, field, query_str), field, query_str)
    IN  IF \E k \in DOMAIN found : found[k].panic THEN [kind |-> "panic"]
        ELSE [kind |-> "ok",
              results |-> [k \in DOMAIN found |->
                              [path |-> found[k].path,
                               line_number |-> found[k].line_number,
                               column |-> found[k].column,
                               context |-> found[k].context]]]

\* ------------------------------------------------------------ fuzzy search

\* Whether text a is within d edits of text b: insertions, deletions and
\* substitutions of one character, and transpositions of two adjacent characters
\* at the cost of one edit (the `true` of FuzzyTermQuery::new).
RECURSIVE WithinDistance(_, _, _)
WithinDistance(a, b, d) ==
    IF d < 0 THEN FALSE
    ELSE IF a = <<>> THEN Len(b) <= d
    ELSE IF b = <<>> THEN Len(a) <= d
    ELSE \/ Head(a) = Head(b) /\ WithinDistance(Tail(a), Tail(b), d)
         \/ WithinDistance(Tail(a), b, d - 1)
         \/ WithinDistance(a, Tail(b), d - 1)
         \/ WithinDistance(Tail(a), Tail(b), d - 1)
         \/ /\ Len(a) >= 2 /\ Len(b) >= 2
            /\ a[1] = b[2] /\ a[2] = b[1]
            /\ WithinDistance(Tail(Tail(a)), Tail(Tail(b)), d - 1)

\* TopDocs::with_limit(10) over the documents matching
\* FuzzyTermQuery(content, query_str, max_distance): a document matches when one
\* of the terms of its content is within max_distance edits of the query string,
\* which is taken as one term, as given.
FuzzyTopDocs(docs, query_str, max_distance) ==
    LET hits == SelectSeq(docs, LAMBDA d :
                    \E term \in Tokenize(d.content) : WithinDistance(query_str, term, max_distance))
    IN  SubSeq(hits, 1, IF Len(hits) < TopDocsLimit THEN Len(hits) ELSE TopDocsLimit)

\* fuzzy_search's context window for a match on line_number.
fuzzy_search_context(line_number, len) ==
    [start |-> line_number - 2,
     end |-> IF line_number - 1 < len - 1 THEN line_number - 1 ELSE len - 1]

\* A window that reports its line whether or not the line holds the query.
FuzzySearchWindowUnfiltered(doc, query_str, i) ==
    LET line_end_indices == DecodeLineEndIndices(doc.line_end_indices)
        at(j) == line_end_indices[j + 1]
        line == Slice(doc.content, at(i), at(i + 1))
    IN  IF ~line.ok THEN <<[panic |-> TRUE]>>
        ELSE <<[panic |-> FALSE, path |-> doc.path, line_number |-> i + 2,
                column |-> 0, context |-> line.str]>>

\* The body of fuzzy_search's loop over line_end_indices.windows(2) for one
\* retrieved document: a result when the line holds query_str verbatim.
FuzzySearchWindow(doc, query_str, i) ==
    LET line_end_indices == DecodeLineEndIndices(doc.line_end_indices)
        at(j) == line_end_indices[j + 1]
        line == Slice(doc.content, at(i), at(i + 1))
        line_number == i + 2
        ctx == fuzzy_search_context(line_number, Len(line_end_indices))
        pieces == [j \in 1..(ctx.end - ctx.start) |->
                      Slice(doc.content, at(ctx.start + j - 1), at(ctx.start + j))]
    IN  IF ~line.ok THEN <<[panic |-> TRUE]>>
        ELSE IF ~Contains(line.str, query_str) THEN <<>>
        ELSE IF ~ContextInRange(ctx, Len(line_end_indices)) THEN <<[panic |-> TRUE]>>
        ELSE IF \E j \in DOMAIN pieces : ~pieces[j].ok THEN <<[panic |-> TRUE]>>
        ELSE <<[panic |-> FALSE,
                path |-> doc.path,
                line_number |-> line_number,
                column |-> Find(line.str, query_str),
                context |-> JoinNL([j \in DOMAIN pieces |-> pieces[j].str])]>>

RECURSIVE FuzzySearchWindows(_, _, _)
FuzzySearchWindows(doc, query_str, n) ==
    IF n = 0 THEN <<>>
    ELSE FuzzySearchWindows(doc, query_str, n - 1) \o FuzzySearchWindow(doc, query_str, n - 1)

RECURSIVE FuzzySearchDocs(_, _)
FuzzySearchDocs(top_docs, query_str) ==
    IF top_docs = <<>> THEN <<>>
    ELSE FuzzySearchWindows(Head(top_docs), query_str,
                            Len(DecodeLineEndIndices(Head(top_docs).line_end_indices)) - 1)
            \o FuzzySearchDocs(Tail(top_docs), query_str)

\* Searcher::fuzzy_search.
fuzzy_search(docs, query_str, max_distance) ==
    LET found == FuzzySearchDocs(FuzzyTopDocs(docs, query_str, max_distance), query_str)
    IN  IF \E k \in DOMAIN found : found[k].panic THEN [kind |-> "panic"]
        ELSE [kind |-> "ok",
              results |-> [k \in DOMAIN found |->
                              [path |-> found[k].path,
                               line_number |-> found[k].line_number,
                               column |-> found[k].column,
                               context |-> found[k].context]]]

\* ------------------------------------------------------------ searcher

\* Texts of at most MaxTextLen characters over a letter, a newline and a
\* two-byte character: empty, ending in a newline, and not.
MaxTextLen == 3
ShortChars == {"a", NL, EAcute}
ShortTexts == UNION {[1..n -> ShortChars] : n \in 0..MaxTextLen}

\* The texts of the scenarios:
\*   hello: "Hello\nhello\n"
\*   defFoo: "def foo(): pass"
\*   useFoo: "from a import foo\nfoo()"
\*   nineLines: nine one-letter lines, x on line 5
\*   mixedCase: "x\nFoo foo\n"
\*   localUse: "def foo(): pass\nfoo()\n"
ScenarioText ==
    [hello |->
        <<"H", "e", "l", "l", "o", NL, "h", "e", "l", "l", "o", NL>>,
     defFoo |->
        <<"d", "e", "f", " ", "f", "o", "o", "(", ")", ":", " ", "p", "a", "s", "s">>,
     useFoo |->
        <<"f", "r", "o", "m", " ", "a", " ", "i", "m", "p", "o", "r", "t", " ", "f", "o", "o", NL, "f", "o", "o", "(", ")">>,
     nineLines |->
        <<"p", NL, "q", NL, "r", NL, "s", NL, "x", NL, "t", NL, "u", NL, "v", NL, "w">>,
     mixedCase |->
        <<"x", NL, "F", "o", "o", " ", "f", "o", "o", NL>>,
     localUse |->
        <<"d", "e", "f", " ", "f", "o", "o", "(", ")", ":", " ", "p", "a", "s", "s", NL, "f", "o", "o", "(", ")", NL>>]
ScenarioTexts == {ScenarioText[f] : f \in DOMAIN ScenarioText}

\* The files of a tree of more than TopDocsLimit Python files, one per directory.
ManyFiles ==
    [k \in 1..(TopDocsLimit + 1) |->
        [path |-> <<<<"d", k>>, "a.py">>,
         text |-> IF k = 1 THEN ScenarioText.mixedCase ELSE ScenarioText.hello]]

\* The committed stores a Searcher is opened on.
Stores ==
    {IndexedDocs(<<[path |-> APy, text |-> t]>>) : t \in ShortTexts \cup ScenarioTexts}
        \cup {IndexedDocs(<<[path |-> APy, text |-> ScenarioText.defFoo],
                           [path |-> ALog, text |-> ScenarioText.hello],
                           [path |-> BPy, text |-> ScenarioText.useFoo]>>),
              IndexedDocs(ManyFiles)}

\* The queries put to the Searcher.
Queries ==
    [text |-> {<<"h", "e", "l", "l", "o">>, <<"H", "e", "l", "l", "o">>,
               <<"f", "o", "o">>, <<"x">>, <<"a">>},
     path |-> {APy, BPy, AbsolutePathStr(APy), AbsolutePathStr(BPy)},
     line |-> 0..4,
     index |-> {0, 1, 2, 3, 4, 7, 16},
     fuzzy |-> {<<"h", "e", "l", "l", "o">>, <<"h", "e", "l", "o">>,
                <<"e", "l", "l", "o">>, <<"a">>},
     max_distance |-> 0..2]

InitSearch ==
    /\ PlainTree
    /\ linkExt = "none"
    /\ dirSchema = "none"
    /\ InitRest
    /\ readerDocs \in Stores
    /\ call = NoCall
    /\ reply = NoReply
    /\ entry = "none"

indexingVars == <<diskVars, indexVars, instVars, walkVars, taskVars, cleanSince, sessions>>

\* searcher.text_search(query, case_sensitive) on the opened Searcher.
TextSearch(query, case_sensitive) ==
    /\ call = NoCall
    /\ call' = [op |-> "text_search", query |-> query, case_sensitive |-> case_sensitive]
    /\ reply' = text_search(readerDocs, query, case_sensitive)
    /\ UNCHANGED <<indexingVars, readerDocs, entry>>

\* searcher.token_info(relative_path, line, start_index, end_index).
TokenInfo(relative_path, line, start_index, end_index) ==
    /\ call = NoCall
    /\ call' = [op |-> "token_info", path |-> relative_path, line |-> line,
                start_index |-> start_index, end_index |-> end_index]
    /\ reply' = token_info(readerDocs, relative_path, line, start_index, end_index)
    /\ UNCHANGED <<indexingVars, readerDocs, entry>>

\* searcher.get_hoverable_ranges(relative_path).
GetHoverableRanges(relative_path) ==
    /\ call = NoCall
    /\ call' = [op |-> "get_hoverable_ranges", path |-> relative_path]
    /\ reply' = get_hoverable_ranges(readerDocs, relative_path)
    /\ UNCHANGED <<indexingVars, readerDocs, entry>>

\* searcher.fuzzy_search(query, max_distance).
FuzzySearch(query, max_distance) ==
    /\ call = NoCall
    /\ call' = [op |-> "fuzzy_search", query |-> query, max_distance |-> max_distance]
    /\ reply' = fuzzy_search(readerDocs, query, max_distance)
    /\ UNCHANGED <<indexingVars, readerDocs, entry>>

\* The caller has the reply; the Searcher serves the next query.
TakeReply ==
    /\ call # NoCall
    /\ call' = NoCall
    /\ reply' = NoReply
    /\ UNCHANGED <<indexingVars, readerDocs, entry>>

NextSearch ==
    \/ \E query \in Queries.text, case_sensitive \in BOOLEAN : TextSearch(query, case_sensitive)
    \/ \E path \in Queries.path, line \in Queries.line :
          \E s \in Queries.index, e \in Queries.index : TokenInfo(path, line, s, e)
    \/ \E path \in Queries.path : GetHoverableRanges(path)
    \/ \E query \in Queries.fuzzy, max_distance \in Queries.max_distance :
          FuzzySearch(query, max_distance)
    \/ TakeReply

SpecSearch == InitSearch /\ [][NextSearch]_vars

\* ------------------------------------------------------------ a Searcher across commits

\* A Searcher that stays open while one caller indexes. Searcher::new opens the
\* directory and takes a reader of its own from index.reader(), with the
\* library's default reload policy: a watcher reloads it some time after a
\* commit. IndexWriteHandle::commit reloads the reader of the Indexer, which no
\* query uses; nothing reloads the Searcher's reader synchronously.
NoSearcher == <<"no searcher">>

InitReader ==
    /\ PlainTree
    /\ linkExt = "none"
    /\ dirSchema = "none"
    /\ InitRest
    /\ readerDocs = NoSearcher
    /\ call = NoCall
    /\ reply = NoReply
    /\ entry = "none"

\* Searcher::new(index_path): the reader starts on what is committed now.
SearcherNew ==
    /\ readerDocs = NoSearcher
    /\ dirSchema = "current"
    /\ readerDocs' = committed
    /\ UNCHANGED <<indexingVars, call, reply, entry>>

\* The watcher of the Searcher's reader notices a commit and reloads.
ReaderReload ==
    /\ readerDocs # NoSearcher
    /\ readerDocs # committed
    /\ readerDocs' = committed
    /\ UNCHANGED <<indexingVars, call, reply, entry>>

\* A query on the Searcher: self.reader.searcher() is the reader's current
\* snapshot. call keeps what was committed when the query was issued.
SearcherQuery ==
    /\ readerDocs # NoSearcher
    /\ call = NoCall
    /\ call' = [op |-> "searcher", committed |-> committed]
    /\ reply' = [kind |-> "ok", docs |-> readerDocs]
    /\ UNCHANGED <<indexingVars, readerDocs, entry>>

NextReader ==
    \/ Create(SeqInstance) /\ UNCHANGED searchVars
    \/ CallIndex(SeqTask, SeqInstance) /\ UNCHANGED searchVars
    \/ AcquireMutex(SeqTask) /\ UNCHANGED searchVars
    \/ WriteHandle(SeqTask) /\ UNCHANGED searchVars
    \/ StartIndexRepository(SeqTask) /\ UNCHANGED searchVars
    \/ WalkEntry(SeqTask) /\ UNCHANGED searchVars
    \/ WalkDirDone(SeqTask) /\ UNCHANGED searchVars
    \/ Commit(SeqTask) /\ UNCHANGED searchVars
    \/ Return(SeqTask) /\ UNCHANGED searchVars
    \/ SearcherNew
    \/ ReaderReload
    \/ SearcherQuery
    \/ TakeReply

SpecReader == InitReader /\ [][NextReader]_vars

\* ------------------------------------------------------------ public entry points

\* go_to, text_search, fuzzy_search and get_hoverable_ranges: one caller, one call
\* at a time. Each call checks the two paths, makes an Indexes value of its own,
\* indexes the root, opens a Searcher and evaluates its query. The query itself
\* is kept as the documents it was evaluated on.
PathExists(path_str) == path_str # "missing"

InitEntry ==
    /\ PlainTree
    /\ linkExt = "none"
    /\ dirSchema \in {"none", "mismatch"}
    /\ InitRest
    /\ readerDocs = NoSearcher
    /\ call = NoCall
    /\ reply = NoReply
    /\ entry = "none"

\* The call and its two exists() checks.
EntryCall(op, root_path_str, index_path_str, i) ==
    /\ entry = "none"
    /\ instState[i] = "none"
    /\ call' = [op |-> op, root_path |-> root_path_str, index_path |-> index_path_str,
                inst |-> i]
    /\ IF ~PathExists(root_path_str)
       THEN /\ reply' = [kind |-> "err", error |-> "Internal error: Root path does not exist"]
            /\ entry' = "returned"
       ELSE IF ~PathExists(index_path_str)
       THEN /\ reply' = [kind |-> "err", error |-> "Internal error: Index path does not exist"]
            /\ entry' = "returned"
       ELSE /\ reply' = NoReply
            /\ entry' = "new"
    /\ UNCHANGED <<indexingVars, readerDocs>>

\* Indexes::new(&index_path, ...).
EntryIndexesNew ==
    /\ entry = "new"
    /\ Create(call.inst)
    /\ IF instState'[call.inst] = "ready"
       THEN entry' = "index" /\ reply' = reply
       ELSE /\ entry' = "returned"
            /\ reply' = [kind |-> "err", error |-> "Failed to create indexes"]
    /\ UNCHANGED <<readerDocs, call>>

\* indexes.index(root_path) is called.
EntryIndex ==
    /\ entry = "index"
    /\ CallIndex(SeqTask, call.inst)
    /\ entry' = "indexing"
    /\ UNCHANGED <<readerDocs, call, reply>>

\* An entry point that opens the Searcher whatever index() returned.
EntryIndexedIgnoringFailure ==
    /\ entry = "indexing"
    /\ Finished(SeqTask)
    /\ entry' = "searcher"
    /\ UNCHANGED <<indexingVars, readerDocs, call, reply>>

\* indexes.index(root_path) has returned: `?` on its result.
EntryIndexed ==
    /\ entry = "indexing"
    /\ Finished(SeqTask)
    /\ IF result[SeqTask] = "ok"
       THEN entry' = "searcher" /\ reply' = reply
       ELSE /\ entry' = "returned"
            /\ reply' = [kind |-> "err", error |-> "Failed to index repository"]
    /\ UNCHANGED <<indexingVars, readerDocs, call>>

\* Searcher::new(&index_path): its reader starts on what is committed now.
EntrySearcherNew ==
    /\ entry = "searcher"
    /\ \E ok \in BOOLEAN :
          IF ok
          THEN readerDocs' = committed /\ entry' = "query" /\ reply' = reply
          ELSE /\ readerDocs' = readerDocs
               /\ entry' = "returned"
               /\ reply' = [kind |-> "err", error |-> "Failed to create searcher"]
    /\ UNCHANGED <<indexingVars, call>>

\* The query on the Searcher, which may return an error of its own.
EntryQuery ==
    /\ entry = "query"
    /\ \E ok \in BOOLEAN :
          reply' = IF ok THEN [kind |-> "ok", docs |-> readerDocs]
                   ELSE [kind |-> "err", error |-> "Error in query"]
    /\ entry' = "returned"
    /\ UNCHANGED <<indexingVars, readerDocs, call>>

\* The caller has the result; the Searcher and the call's task are gone.
EntryReturn ==
    /\ entry = "returned"
    /\ entry' = "none"
    /\ call' = NoCall
    /\ reply' = NoReply
    /\ readerDocs' = NoSearcher
    /\ IF Finished(SeqTask) THEN Return(SeqTask) ELSE UNCHANGED indexingVars

NextEntry ==
    \/ \E op \in {"go_to", "text_search", "fuzzy_search", "get_hoverable_ranges"},
          root_path_str \in {"repo", "missing"}, index_path_str \in {"index", "missing"},
          i \in Instances : EntryCall(op, root_path_str, index_path_str, i)
    \/ EntryIndexesNew
    \/ EntryIndex
    \/ AcquireMutex(SeqTask) /\ UNCHANGED searchVars
    \/ WriteHandle(SeqTask) /\ UNCHANGED searchVars
    \/ StartIndexRepository(SeqTask) /\ UNCHANGED searchVars
    \/ WalkEntry(SeqTask) /\ UNCHANGED searchVars
    \/ WalkDirDone(SeqTask) /\ UNCHANGED searchVars
    \/ Commit(SeqTask) /\ UNCHANGED searchVars
    \/ EntryIndexed
    \/ EntrySearcherNew
    \/ EntryQuery
    \/ EntryReturn

SpecEntry == InitEntry /\ [][NextEntry]_vars

\* ------------------------------------------------------------ properties of the searcher

\* The lines of a text as a reader counts them: the characters between newlines,
\* numbered from 1 (a text ending in a newline has an empty last line).
NumLines(text) == Cardinality({k \in 1..Len(text) : text[k] = NL}) + 1
LineText(text, n) ==
    LET nls == {k \in 1..Len(text) : text[k] = NL}
        before == {k \in nls : Cardinality({j \in nls : j <= k}) = n - 1}
        after == {k \in nls : Cardinality({j \in nls : j <= k}) = n}
        from == IF before = {} THEN 1 ELSE (CHOOSE k \in before : TRUE) + 1
        to == IF after = {} THEN Len(text) ELSE (CHOOSE k \in after : TRUE) - 1
    IN  SubSeq(text, from, to)

SearchedField == IF call.case_sensitive THEN "content" ELSE "content_insensitive"
SearchedQuery == IF call.case_sensitive THEN call.query ELSE ToLowercase(call.query)
ResultsAt(path, line) ==
    {k \in DOMAIN reply.results :
        reply.results[k].path = path /\ reply.results[k].line_number = line}

\* C11: for every document text_search retrieves and every line of it, the first
\* included, one result with that line's 1-based number is returned when the line
\* contains the query in the searched field, and none when it does not.
C11_LineReporting ==
    (call.op = "text_search" /\ reply.kind = "ok") =>
        LET top == TopDocs(readerDocs, SearchedField, SearchedQuery)
        IN  \A k \in DOMAIN top : \A n \in 1..NumLines(top[k][SearchedField]) :
                Cardinality(ResultsAt(top[k].path, n))
                    = IF Contains(LineText(top[k][SearchedField], n), SearchedQuery)
                      THEN 1 ELSE 0

\* C12: for a query without uppercase letters, every result of the
\* case-sensitive search is a result of the case-insensitive search.
C12_CaseSuperset ==
    (call.op = "text_search" /\ call.case_sensitive /\ ~HasUppercase(call.query)
        /\ reply.kind = "ok") =>
        LET other == text_search(readerDocs, call.query, FALSE)
        IN  /\ other.kind = "ok"
            /\ \A k \in DOMAIN reply.results :
                  \E j \in DOMAIN other.results : other.results[j] = reply.results[k]

\* The window the specification describes around line n of a text of the given
\* number of lines: three lines before to three lines after.
ContextWindow(text, n) ==
    LET last == IF text # <<>> /\ text[Len(text)] = NL
                THEN NumLines(text) - 1 ELSE NumLines(text)
        from == IF n - 3 < 1 THEN 1 ELSE n - 3
        to == IF n + 3 > last THEN last ELSE n + 3
    IN  JoinNL([j \in 1..(to - from + 1) |-> LineText(text, from + j - 1)])

\* C13: the context of a result on line n is the original content's lines
\* max(1, n-3) to min(N, n+3).
C13_ContextWindow ==
    (call.op = "text_search" /\ reply.kind = "ok") =>
        \A k \in DOMAIN reply.results :
            \A d \in DOMAIN readerDocs :
                readerDocs[d].path = reply.results[k].path =>
                    reply.results[k].context
                        = ContextWindow(readerDocs[d].content, reply.results[k].line_number)

\* The source document of the token_info call in progress, and the node of its
\* scope graph at the byte range the call names.
CallDocs == load_all_documents(readerDocs, detect_language(call.path))
CallDocFound == call.op = "token_info" /\ PositionOfPath(CallDocs, call.path) # 0
CallDoc == CallDocs[PositionOfPath(CallDocs, call.path)]
CallNodes ==
    LET bytes == line_word_to_byte_range(CallDoc.content, CallDoc.line_end_indices,
                                         call.line, call.start_index, call.end_index)
    IN  IF bytes.kind # "ok" THEN {}
        ELSE {n \in CallDoc.symbol_locations :
                n.range.start.byte = bytes.start_byte /\ n.range.end.byte = bytes.end_byte}
ReplyOccurrences(r) ==
    UNION {{<<r.data[f].file, r.data[f].data[o]>> : o \in DOMAIN r.data[f].data} :
              f \in DOMAIN r.data}

\* C14: every line and column at the public boundary is 1-based: the lines and
\* columns returned by text_search, token_info and get_hoverable_ranges start at
\* 1, and token_info reads its start column as the 1-based column of the token's
\* first character.
C14_OneBased ==
    /\ (call.op = "text_search" /\ reply.kind = "ok") =>
          \A k \in DOMAIN reply.results :
              reply.results[k].line_number >= 1 /\ reply.results[k].column >= 1
    /\ (call.op = "get_hoverable_ranges" /\ reply.kind = "ok") =>
          \A k \in DOMAIN reply.ranges :
              LET f == format_hoverable_ranges(reply.ranges)[k]
              IN  /\ f.start_line >= 1 /\ f.start_column >= 1
                  /\ f.end_line >= 1 /\ f.end_column >= 1
    /\ (call.op = "token_info" /\ reply.kind = "ok") =>
          /\ \A occ \in ReplyOccurrences(reply) :
                occ[2].range.start.line >= 1 /\ occ[2].range.start.column >= 1
          /\ \A n \in CallNodes :
                /\ call.line = n.range.start.line + 1
                /\ call.start_index = n.range.start.column + 1

\* C15: token_info never panics, and it returns an error when the line number is
\* 0 or beyond the lines of the document, when word_start >= word_end, and when
\* word_end exceeds the number of characters of the line.
C15_InvalidRejected ==
    (call.op = "token_info") =>
        /\ reply.kind # "panic"
        /\ (CallDocFound
              /\ \/ call.line = 0
                 \/ call.line > NumLines(CallDoc.content)
                 \/ call.start_index >= call.end_index
                 \/ call.end_index > Len(LineText(CallDoc.content, call.line)))
            => reply.kind = "err"

\* C15 witness: a word span that runs past the end of a later line holding a
\* two-byte character is rejected.
C15_Witness ==
    /\ CallDocFound
    /\ call.line = 2 /\ call.line <= NumLines(CallDoc.content)
    /\ EAcute \in {LineText(CallDoc.content, 2)[k] : k \in DOMAIN LineText(CallDoc.content, 2)}
    /\ call.start_index < call.end_index
    /\ reply = [kind |-> "err", error |-> "Invalid word indices"]

\* C16: with a.py = `def foo(): pass` and b.py = `from a import foo\nfoo()`
\* indexed, token_info("a.py", 1, 4, 7) succeeds with a Definition in a.py and a
\* Reference in b.py.
C16_CrossFile ==
    (/\ \E d \in DOMAIN readerDocs : readerDocs[d].content = ScenarioText.useFoo
     /\ call = [op |-> "token_info", path |-> APy, line |-> 1,
                start_index |-> 4, end_index |-> 7]) =>
        /\ reply.kind = "ok"
        /\ \E occ \in ReplyOccurrences(reply) :
              Last(occ[1]) = "a.py" /\ occ[2].kind = "Definition"
        /\ \E occ \in ReplyOccurrences(reply) :
              Last(occ[1]) = "b.py" /\ occ[2].kind = "Reference"

\* token_info on the range of a node of the call's source document.
TokenInfoAt(node) ==
    LET text == CallDoc.content
        lineStart == CharsBefore(text, node.range.start.byte - node.range.start.column)
    IN  token_info(readerDocs, call.path, node.range.start.line + 1,
                   CharsBefore(text, node.range.start.byte) - lineStart,
                   CharsBefore(text, node.range.end.byte) - lineStart)

\* C17: token_info on the range of a definition returns that definition, and
\* token_info on the range of a reference that resolves to a local definition
\* returns the occurrences token_info returns on that definition.
C17_DefRefSameSet ==
    (call.op = "token_info" /\ reply.kind = "ok") =>
        \A n \in CallNodes :
            /\ n.kind = "def" =>
                  <<call.path, [kind |-> "Definition", range |-> AdjustLines(n.range)]>>
                      \in ReplyOccurrences(reply)
            /\ n.kind = "ref" =>
                  \A d \in LocalDefinition(CallDoc.symbol_locations, n) :
                      /\ TokenInfoAt(d).kind = "ok"
                      /\ ReplyOccurrences(TokenInfoAt(d)) = ReplyOccurrences(reply)

\* C17 witness: token_info on a reference that resolves to a definition of its
\* own document, and returns that definition.
C17_Witness ==
    /\ call.op = "token_info" /\ reply.kind = "ok"
    /\ \E n \in CallNodes :
          /\ n.kind = "ref"
          /\ LocalDefinition(CallDoc.symbol_locations, n) # {}
          /\ \E occ \in ReplyOccurrences(reply) : occ[2].kind = "Definition"

\* C18: every occurrence range token_info returns for a file is one of the
\* ranges get_hoverable_ranges returns for that file.
C18_OccurrencesHoverable ==
    (call.op = "token_info" /\ reply.kind = "ok") =>
        \A occ \in ReplyOccurrences(reply) :
            LET hover == get_hoverable_ranges(readerDocs, occ[1])
            IN  /\ hover.kind = "ok"
                /\ \E k \in DOMAIN hover.ranges : hover.ranges[k] = occ[2].range

\* C19: in every committed state, the hash of every stored document is the
\* SHA-256 (lowercase hex) of its stored content.
C19_HashOfContent ==
    \A d \in BagToSet(committed) : d.hash = Sha256Hex(d.content)

\* C19 witness: a committed document whose content replaced an earlier one.
C19_Witness ==
    /\ sessions >= 2
    /\ \E d \in BagToSet(committed) : d.path = APy /\ d.content = V2

\* C20: the line_end_indices of every stored document decode to newline_count + 1
\* strictly increasing entries: the byte offset of every newline of the content,
\* then the byte length of the content.
C20_LineEndIndices ==
    \A d \in DOMAIN readerDocs :
        LET text == readerDocs[d].content
            decoded == DecodeLineEndIndices(readerDocs[d].line_end_indices)
            newlines == {k \in 1..Len(text) : text[k] = NL}
            count == Cardinality(newlines)
        IN  /\ Len(readerDocs[d].line_end_indices) = (count + 1) * 4
            /\ Len(decoded) = count + 1
            /\ \A i \in 1..count : decoded[i] < decoded[i + 1]
            /\ {decoded[i] : i \in 1..count} = {ByteLenUpTo(text, k - 1) : k \in newlines}
            /\ decoded[count + 1] = ByteLen(text)

\* C20 witness: a stored document whose content holds a two-byte character
\* between two newlines and ends in a newline; token_info finds its third line,
\* the empty one the final entry closes.
C20_Witness ==
    /\ \E d \in DOMAIN readerDocs : readerDocs[d].content = <<NL, EAcute, NL>>
    /\ call.op = "token_info" /\ call.line = 3
    /\ reply = [kind |-> "err", error |-> "Invalid word indices"]

\* C21: no stored or pending document has lang "plaintext", and no session calls
\* add_document for a file whose extension maps to no supported language.
C21_NoPlaintextStored ==
    /\ \A d \in DOMAIN committed : d.lang # "plaintext"
    /\ \A t \in Tasks :
        /\ \A d \in DOMAIN pendAdd[t] : d.lang # "plaintext"
        /\ \A p \in {ALog, KeepLog} : sessAdds[t][p] = 0

\* C21 witness: a successful session whose walk reached keep.log, a regular file
\* of valid UTF-8 with no supported language, and stored a.py.
C21_Witness ==
    \E t \in Tasks :
        /\ Succeeded(t)
        /\ Reaches(t, KeepLog) /\ FromUtf8(fileBytes[KeepLog]).ok
        /\ DocsAt(committed, APy) = 1
        /\ DocsAt(committed, KeepLog) = 0

\* C22: while a file is absent from disk, no step changes the committed documents
\* of its path: they stay, with the content and hash they had when it was removed.
C22_NoDeleteOnDisappearance ==
    [][\A f \in EditableFiles :
          (fileBytes[f] = NoFile /\ fileBytes'[f] = NoFile) =>
              /\ DocsAt(committed', f) = DocsAt(committed, f)
              /\ {d \in DOMAIN committed' : d.path = f} = {d \in DOMAIN committed : d.path = f}]_vars

\* C22 witness: a session succeeded over a tree from which a.py had been removed,
\* and the document stored for a.py before the session is still there.
C22_Witness ==
    \E t \in Tasks :
        /\ Succeeded(t)
        /\ fileBytes[APy] = NoFile
        /\ DocsAt(preSession[t], APy) = 1
        /\ DocsAt(committed, APy) = 1

\* C23 (as claimed): a successful session leaves a document with the current
\* content for every file its walk reaches that is valid UTF-8 in a supported
\* language, whatever other entries of the walk are binary or in no language.
C23_PerFileIsolated ==
    \A t \in Tasks : \A f \in RealFiles :
        (/\ Succeeded(t)
         /\ Reaches(t, f)
         /\ FromUtf8(fileBytes[f]).ok
         /\ detect_language(f) # "plaintext") =>
            /\ DocsAt(committed, f) >= 1
            /\ \A d \in DOMAIN committed : d.path = f => d.content = fileBytes[f]

\* C28 (as claimed): a session never orphans a path: when the walk is over, every
\* path it issued delete_term for has a pending add_document that survived, and
\* after a successful commit every path that had a document before the session
\* still has one.
C28_NeverOrphans ==
    \A t \in Tasks : \A p \in CanonPaths :
        /\ (pc[t] = "commit" /\ sessDels[t][p] > 0) => DocsAt(pendAdd[t], p) > 0
        /\ (Succeeded(t) /\ DocsAt(preSession[t], p) > 0) => DocsAt(committed, p) > 0

\* C29 (as claimed): a file with a document stored before the session, whose bytes
\* are no longer valid UTF-8 or which is now ignored (itself or its directory),
\* gets neither delete_term nor add_document for its path, and after a successful
\* session its documents are the ones stored before.
SkippedNow(t, f) ==
    /\ fileBytes[f] # NoFile
    /\ DocsAt(preSession[t], f) > 0
    /\ ~FromUtf8(fileBytes[f]).ok \/ ~Reaches(t, f)

C29_SkippedUntouched ==
    \A t \in Tasks : \A f \in RealFiles :
        (pc[t] \in {"walk", "commit", "done"} /\ result[t] \in {"none", "ok"} /\ SkippedNow(t, f)) =>
            /\ sessDels[t][f] = 0 /\ sessAdds[t][f] = 0
            /\ Succeeded(t) =>
                  /\ DocsAt(committed, f) = DocsAt(preSession[t], f)
                  /\ {d \in DOMAIN committed : d.path = f} = {d \in DOMAIN preSession[t] : d.path = f}

\* The characters of a text before its line n (1-based), newlines included.
RECURSIVE CharsBeforeLine(_, _)
CharsBeforeLine(text, n) ==
    IF n = 1 THEN 0 ELSE CharsBeforeLine(text, n - 1) + Len(LineText(text, n - 1)) + 1

\* C25: for a line of the document and a non-empty character range within it,
\* line_word_to_byte_range returns bytes with
\* line_start <= start_byte < end_byte <= line_end, the line bounds leaving out the
\* newline that ends the previous line, and the content between them is exactly
\* the characters word_start (inclusive) to word_end (exclusive) of the line.
C25_ByteRangeOfWord ==
    CallDocFound =>
        LET text == CallDoc.content
            line == LineText(text, call.line)
            valid == /\ call.line \in 1..NumLines(text)
                     /\ call.start_index < call.end_index
                     /\ call.end_index <= Len(line)
            line_start == ByteLenUpTo(text, CharsBeforeLine(text, call.line))
            line_end == line_start + ByteLen(line)
            bytes == line_word_to_byte_range(text, CallDoc.line_end_indices,
                                             call.line, call.start_index, call.end_index)
        IN  valid =>
                /\ bytes.kind = "ok"
                /\ line_start <= bytes.start_byte
                /\ bytes.start_byte < bytes.end_byte
                /\ bytes.end_byte <= line_end
                /\ Slice(text, bytes.start_byte, bytes.end_byte)
                      = [ok |-> TRUE, str |-> SubSeq(line, call.start_index + 1, call.end_index)]

\* C25 witness: the word "a" that follows a two-byte character on the second
\* line: characters 1..2 of the line, bytes 3..4 of the content.
C25_Witness ==
    /\ CallDocFound
    /\ CallDoc.content = <<NL, EAcute, "a">>
    /\ call.line = 2 /\ call.start_index = 1 /\ call.end_index = 2
    /\ line_word_to_byte_range(CallDoc.content, CallDoc.line_end_indices, 2, 1, 2)
          = [kind |-> "ok", start_byte |-> 3, end_byte |-> 4]

\* The lines text_search or fuzzy_search matches in a stored document: the
\* windows (from 0) of its line_end_indices whose text holds the query.
MatchingWindows(doc) ==
    LET line_end_indices == DecodeLineEndIndices(doc.line_end_indices)
        text == IF call.op = "text_search" THEN doc[SearchedField] ELSE doc.content
        query_str == IF call.op = "text_search" THEN SearchedQuery ELSE call.query
    IN  {i \in 0..(Len(line_end_indices) - 2) :
            LET line == Slice(text, line_end_indices[i + 1], line_end_indices[i + 2])
            IN  line.ok /\ Contains(line.str, query_str)}

\* C26: in text_search and in fuzzy_search, for every stored document and every
\* line that matches, the context window satisfies
\* 0 <= context_start <= context_end <= len(line_end_indices) - 1, and the search
\* returns without a panic.
C26_ContextInRange ==
    call.op \in {"text_search", "fuzzy_search"} =>
        /\ reply.kind = "ok"
        /\ \A k \in DOMAIN readerDocs :
              LET len == Len(DecodeLineEndIndices(readerDocs[k].line_end_indices))
              IN  \A i \in MatchingWindows(readerDocs[k]) :
                      LET ctx == IF call.op = "text_search"
                                 THEN text_search_context(i + 2, len)
                                 ELSE fuzzy_search_context(i + 2, len)
                      IN  0 <= ctx.start /\ ctx.start <= ctx.end /\ ctx.end <= len - 1

\* C26 witness: text_search reports a match on line 2 of a two-line document, the
\* first line its loop examines and the last of the file: both clamps apply.
C26_Witness ==
    /\ call.op = "text_search"
    /\ reply.kind = "ok"
    /\ \E k \in DOMAIN readerDocs :
          /\ readerDocs[k].content = <<"a", NL, "a">>
          /\ MatchingWindows(readerDocs[k]) = {0}
    /\ Len(reply.results) = 1 /\ reply.results[1].line_number = 2

\* Whether some line of a text holds the query verbatim.
SomeLineContains(text, query_str) ==
    \E n \in 1..NumLines(text) : Contains(LineText(text, n), query_str)

\* C27: every result of fuzzy_search names a line of a stored document that
\* holds the query string verbatim, and a document none of whose lines holds it
\* contributes no result, however close its terms are to the query.
C27_FuzzyExactSubstring ==
    (call.op = "fuzzy_search" /\ reply.kind = "ok") =>
        /\ \A k \in DOMAIN reply.results :
              \E j \in DOMAIN readerDocs :
                  /\ readerDocs[j].path = reply.results[k].path
                  /\ reply.results[k].line_number \in 1..NumLines(readerDocs[j].content)
                  /\ Contains(LineText(readerDocs[j].content, reply.results[k].line_number),
                              call.query)
        /\ \A j \in DOMAIN readerDocs :
              ~SomeLineContains(readerDocs[j].content, call.query) =>
                  \A k \in DOMAIN reply.results : reply.results[k].path # readerDocs[j].path

\* C27 witness: "helo" within one edit retrieves the document of "Hello\nhello\n"
\* through its term "hello"; no line holds "helo", and there is no result.
C27_Witness ==
    /\ call.op = "fuzzy_search"
    /\ call.query = <<"h", "e", "l", "o">>
    /\ call.max_distance = 1
    /\ Len(readerDocs) = 1
    /\ readerDocs[1].content = ScenarioText.hello
    /\ Len(FuzzyTopDocs(readerDocs, call.query, call.max_distance)) = 1
    /\ reply = [kind |-> "ok", results |-> <<>>]

\* C24 (as claimed): a query on an open Searcher observes exactly the documents
\* committed when it was issued, never an older snapshot.
C24_ReaderRefresh ==
    call.op = "searcher" => reply.docs = call.committed

\* C30: a task that is not in a session holds no write_mutex, whichever way its
\* last session ended, and every call of index() waiting for the mutex of its
\* Indexes value eventually acquires it.
C30_MutexReleased ==
    /\ [](\A t \in Tasks : pc[t] \in {"idle", "lock", "done"} =>
              \A i \in Instances : mutex[i] # t)
    /\ \A t \in Tasks : (pc[t] = "lock") ~> (pc[t] = "write_handle")

\* C30 witness: a session failed on an Indexes value, and the other task, calling
\* the same value, holds its mutex after that.
C30_Witness ==
    \E t, u \in Tasks :
        /\ t # u /\ inst[t] = inst[u]
        /\ Finished(u) /\ result[u] \notin {"none", "ok"}
        /\ mutex[inst[t]] = t

QueryEvaluated ==
    \/ reply.kind = "ok"
    \/ reply.kind = "err" /\ reply.error = "Error in query"

\* C31: at every entry point, indexing starts only after both paths were found
\* to exist; a Searcher is opened and the query evaluated only after the call's
\* own indexing session of the root has ended in a commit and returned Ok, and
\* the query then runs on the committed documents; a call whose root or index
\* path is missing returns an error with nothing indexed, and a call whose
\* indexing session failed returns an error, both with no Searcher opened and no
\* query evaluated.
C31_IndexBeforeQuery ==
    /\ entry \in {"new", "index", "indexing", "searcher", "query"} =>
          PathExists(call.root_path) /\ PathExists(call.index_path)
    /\ (entry \in {"searcher", "query"} \/ readerDocs # NoSearcher \/ QueryEvaluated) =>
          /\ PathExists(call.root_path) /\ PathExists(call.index_path)
          /\ Succeeded(SeqTask)
          /\ inst[SeqTask] = call.inst
          /\ writerEnd[SeqTask] = "commit"
    /\ (entry = "query" \/ reply.kind = "ok") => readerDocs = committed
    /\ reply.kind = "ok" => reply.docs = committed
    /\ (entry = "returned" /\ ~(PathExists(call.root_path) /\ PathExists(call.index_path))) =>
          /\ reply.kind = "err"
          /\ instState[call.inst] = "none" /\ pc[SeqTask] = "idle"
          /\ readerDocs = NoSearcher
    /\ (entry = "returned" /\ Finished(SeqTask) /\ result[SeqTask] # "ok") =>
          /\ reply = [kind |-> "err", error |-> "Failed to index repository"]
          /\ readerDocs = NoSearcher

\* C31 witness: fuzzy_search returned the result of a query evaluated on the two
\* documents its own session committed.
C31_Witness ==
    /\ entry = "returned"
    /\ call.op = "fuzzy_search"
    /\ reply.kind = "ok"
    /\ DocsAt(reply.docs, APy) = 1 /\ DocsAt(reply.docs, BPy) = 1
    /\ sessAdds[SeqTask][APy] = 1 /\ sessAdds[SeqTask][BPy] = 1

====
